---- MODULE Spec2Model ----
(***************************************************************************)
(* Model of the passive HTTP-observability engine of devine-eyes:          *)
(* backend/services/src/network_monitor_service.rs (header decoder,        *)
(* connection correlator, result sink, capture orchestrator).              *)
(*                                                                         *)
(* Conventions.  Byte buffers are sequences of 0..255; the code's index i  *)
(* is At(data, i).  An IPv4 address is the tuple of its four octets and a  *)
(* connection id is the tuple <<ip, port, ip, port>>: the code renders     *)
(* both with format!("{}.{}.{}.{}") and format!("{}:{}:{}:{}"), which map  *)
(* distinct tuples to distinct strings, so tuples stand for the strings.   *)
(* Time is in milliseconds.                                                *)
(***************************************************************************)
EXTENDS Integers, Sequences, FiniteSets, TLC

VARIABLES
    frame,              \* decoder harness: the raw frame under decode
    decode_pc,          \* decoder harness: "pending" before the call, "done" after
    decoded,            \* decoder harness: result of extract_connection_info
    clock,              \* Utc::now(), in milliseconds
    ticks,              \* number of clock advances so far
    ops,                \* number of handler calls so far
    db_configured,      \* self.db.is_some()
    db_rows,            \* rows inserted through insert_http_request_to_db
    pending_requests,   \* self.pending_requests: connection id -> PendingRequest
    captured_requests,  \* self.captured_requests: container id -> Vec<HttpRequest>
    last_op,            \* the call made by the latest step and the log line it ended with
    open_req,           \* history: per connection id, the requests handled since the last response on it
    swept_keys,         \* history: connection ids whose entry a sweep removed, no request since
    tasks,              \* capture tasks spawned by start_monitoring, with the frames each has yet to read
    ip_cache,           \* CONTAINER_IP_CACHE: container id -> IP addresses
    monitor_calls,      \* number of start_monitoring calls so far
    monitor_result,     \* what the latest start_monitoring call returned
    wire,               \* history: the frames that appeared on the interface
    capture_feature,    \* the build has feature "network-capture"
    api_reply,          \* what the latest get_container_http_requests call got and served
    lookup,             \* history: the latest find_container_for_packet call and its outcome
    task_pc,            \* per capture task: where it is in its loop iteration, and its locals
    locks,              \* per RwLock: the task holding its write guard
    worker              \* the worker's collection and batch-insert tasks and the buffer they share

decode_vars == <<frame, decode_pc, decoded>>
correlator_vars == <<clock, ticks, ops, db_configured, db_rows, pending_requests,
                     captured_requests, last_op, open_req, swept_keys>>

capture_vars == <<tasks, ip_cache, monitor_calls, monitor_result, wire>>

service_vars == <<capture_feature, api_reply, lookup, task_pc, locks, worker>>

vars == <<decode_vars, correlator_vars, capture_vars, service_vars>>

\* Option<T>: None is the empty set, Some(x) the singleton {x}
None == {}
Some(x) == {x}
IsSome(o) == o # {}
Unwrap(o) == CHOOSE x \in o : TRUE

----------------------------------------------------------------------------
(* Header decoder: extract_connection_info                                 *)

At(data, i) == data[i + 1]

\* &data[from..]
SliceFrom(data, from) == SubSeq(data, from + 1, Len(data))

IpAt(data, off) == <<At(data, off), At(data, off + 1), At(data, off + 2), At(data, off + 3)>>

\* ((hi as u16) << 8) | (lo as u16)
PortAt(data, off) == At(data, off) * 256 + At(data, off + 1)

IsSll(data) == At(data, 0) = 0 /\ At(data, 1) = 0

LinkOffsetsEthernetOnly(data) ==
    [ip_header_start |-> 14, ip_protocol_offset |-> 23, src_ip_offset |-> 26, dst_ip_offset |-> 30]

\* (ip_header_start, ip_protocol_offset, src_ip_offset, dst_ip_offset)
LinkOffsets(data) ==
    IF IsSll(data)
    THEN [ip_header_start |-> 16, ip_protocol_offset |-> 25, src_ip_offset |-> 28, dst_ip_offset |-> 32]
    ELSE [ip_header_start |-> 14, ip_protocol_offset |-> 23, src_ip_offset |-> 26, dst_ip_offset |-> 30]

HttpServerPorts == {80, 443, 8080, 8443, 8000, 3000, 5000, 9000}

IsResponsePort(dst_port) == dst_port \in HttpServerPorts

ConnectionId(src_ip, src_port, dst_ip, dst_port) ==
    IF src_port < dst_port
    THEN <<src_ip, src_port, dst_ip, dst_port>>
    ELSE <<dst_ip, dst_port, src_ip, src_port>>

IsTcpAnyProtocol(ip_protocol) == TRUE

\* ip_protocol != 6 is dropped
IsTcp(ip_protocol) == ip_protocol = 6

\* ((b & 0xF0) >> 4) * 4
TcpHeaderLen(b) == (b \div 16) * 4

ExtractConnectionInfo(data) ==
    IF Len(data) < 34 THEN None
    ELSE LET o == LinkOffsets(data) IN
    IF Len(data) < o.dst_ip_offset + 4 THEN None
    ELSE IF ~IsTcp(At(data, o.ip_protocol_offset)) THEN None
    ELSE LET src_ip == IpAt(data, o.src_ip_offset)
             dst_ip == IpAt(data, o.dst_ip_offset)
             tcp_start == o.ip_header_start + 20
         IN
    IF Len(data) < tcp_start + 4 THEN None
    ELSE LET src_port == PortAt(data, tcp_start)
             dst_port == PortAt(data, tcp_start + 2)
             tcp_header_len_offset == tcp_start + 12
         IN
    IF Len(data) < tcp_header_len_offset + 1 THEN None
    ELSE LET http_start == tcp_start + TcpHeaderLen(At(data, tcp_header_len_offset)) IN
    IF Len(data) > http_start
    THEN Some([connection_id |-> ConnectionId(src_ip, src_port, dst_ip, dst_port),
               http_data |-> SliceFrom(data, http_start),
               is_response |-> IsResponsePort(dst_port)])
    ELSE None

IndicesReadPortsUnchecked(data) ==
    IF Len(data) < 34 THEN {}
    ELSE LET o == LinkOffsets(data)
             link == {0, 1}
         IN
    IF Len(data) < o.dst_ip_offset + 4 THEN link
    ELSE LET protocol == link \cup {o.ip_protocol_offset} IN
    IF ~IsTcp(At(data, o.ip_protocol_offset)) THEN protocol
    ELSE LET addresses == protocol \cup (o.src_ip_offset..(o.src_ip_offset + 3))
                                   \cup (o.dst_ip_offset..(o.dst_ip_offset + 3))
             tcp_start == o.ip_header_start + 20
             ports == addresses \cup (tcp_start..(tcp_start + 3))
             tcp_header_len_offset == tcp_start + 12
         IN
    IF Len(data) < tcp_header_len_offset + 1 THEN ports
    ELSE LET header == ports \cup {tcp_header_len_offset}
             http_start == tcp_start + TcpHeaderLen(At(data, tcp_header_len_offset))
         IN
    IF Len(data) > http_start THEN header \cup (http_start..(Len(data) - 1))
    ELSE header

\* the indices of packet.data that extract_connection_info reads, on the path
\* it takes for data; the payload slice counts with every index it covers
IndicesRead(data) ==
    IF Len(data) < 34 THEN {}
    ELSE LET o == LinkOffsets(data)
             link == {0, 1}
         IN
    IF Len(data) < o.dst_ip_offset + 4 THEN link
    ELSE LET protocol == link \cup {o.ip_protocol_offset} IN
    IF ~IsTcp(At(data, o.ip_protocol_offset)) THEN protocol
    ELSE LET addresses == protocol \cup (o.src_ip_offset..(o.src_ip_offset + 3))
                                   \cup (o.dst_ip_offset..(o.dst_ip_offset + 3))
             tcp_start == o.ip_header_start + 20
         IN
    IF Len(data) < tcp_start + 4 THEN addresses
    ELSE LET ports == addresses \cup (tcp_start..(tcp_start + 3))
             tcp_header_len_offset == tcp_start + 12
         IN
    IF Len(data) < tcp_header_len_offset + 1 THEN ports
    ELSE LET header == ports \cup {tcp_header_len_offset}
             http_start == tcp_start + TcpHeaderLen(At(data, tcp_header_len_offset))
         IN
    IF Len(data) > http_start THEN header \cup (http_start..(Len(data) - 1))
    ELSE header

----------------------------------------------------------------------------
(* Frames offered to the decoder                                           *)

IpA == <<172, 17, 0, 2>>
IpB == <<172, 17, 0, 3>>
FrameIps == {IpA, IpB}

\* 51000, 8080, 80
FramePorts == {51000, 8080, 80}

Zeros(n) == [i \in 1..n |-> 0]

\* 14-byte Ethernet II header (destination MAC first) or 16-byte SLL header
LinkHeader(kind) ==
    IF kind = "sll"
    THEN <<0, 0, 0, 1, 0, 6, 2, 66, 172, 17, 0, 2, 0, 0, 8, 0>>
    ELSE <<2, 66, 172, 17, 0, 3, 2, 66, 172, 17, 0, 2, 8, 0>>

IpHeader(proto, src_ip, dst_ip) ==
    <<69, 0, 0, 60, 0, 0, 64, 0, 64, proto, 0, 0>> \o src_ip \o dst_ip

PortBytes(p) == <<p \div 256, p % 256>>

\* data_offset is the TCP header length in 32-bit words
TcpHeader(src_port, dst_port, data_offset) ==
    PortBytes(src_port) \o PortBytes(dst_port) \o Zeros(8)
        \o <<data_offset * 16, 24>> \o Zeros(6) \o Zeros((data_offset - 5) * 4)

MkFrame(kind, proto, src_ip, src_port, dst_ip, dst_port, data_offset, payload) ==
    LinkHeader(kind) \o IpHeader(proto, src_ip, dst_ip)
        \o TcpHeader(src_port, dst_port, data_offset) \o payload

\* the packet of the opposite direction of the same connection
Reverse(f) ==
    [f EXCEPT !.src_ip = f.dst_ip, !.src_port = f.dst_port,
              !.dst_ip = f.src_ip, !.dst_port = f.src_port]

FrameOf(f) ==
    MkFrame(f.kind, f.proto, f.src_ip, f.src_port, f.dst_ip, f.dst_port, f.data_offset, f.payload)

FrameFields ==
    [kind : {"ethernet", "sll"}, proto : {6, 17},
     src_ip : FrameIps, src_port : FramePorts,
     dst_ip : FrameIps, dst_port : FramePorts,
     data_offset : {5, 8}, payload : {<<>>, <<71, 69, 84>>}]

----------------------------------------------------------------------------
(* HashMap operations used by the service                                  *)

EmptyMap == <<>>

MapGet(m, k) == IF k \in DOMAIN m THEN Some(m[k]) ELSE None

MapInsert(m, k, v) == [x \in DOMAIN m \cup {k} |-> IF x = k THEN v ELSE m[x]]

MapRemoveNothing(m, k) == m

MapRemove(m, k) == [x \in DOMAIN m \ {k} |-> m[x]]

----------------------------------------------------------------------------
(* Connection correlator and result sink                                   *)

Unknown == "unknown"

\* container ids as the runtime reports them (64 hex digits)
CidWeb == "4f9a1c2be07d4f9a1c2be07d4f9a1c2be07d4f9a1c2be07d4f9a1c2be07d4f9a"
CidApi == "b81e66d0c3a5b81e66d0c3a5b81e66d0c3a5b81e66d0c3a5b81e66d0c3a5b81e"
ContainerIds == {CidWeb, CidApi}

NameOf(cid) == IF cid = CidWeb THEN "web-1" ELSE "api-1"

\* (container_id, container_name) pairs capture_packets passes to the handlers:
\* the resolved id with its listed name, or "unknown"/"unknown" when nothing
\* was resolved
Identities ==
    {<<Unknown, Unknown>>, <<CidWeb, NameOf(CidWeb)>>}

\* connection ids of two connections, as the decoder computes them
Keys == {ConnectionId(IpA, 51000, IpB, 8080), ConnectionId(IpB, 51000, IpA, 80)}

\* (method, path) of parsed requests
RequestLines == {<<"GET", "/health">>, <<"POST", "/api/users">>}

\* parsed.status: Option<u16> (httparse sets the code of a complete response)
StatusCodes == {Some(404)}

PendingExpirySecs == 30
MsPerSec == 1000

\* &container_id[..12] panics on an id shorter than 12 bytes
PrefixLen == 12
SlicePanics(cid) == Len(cid) < PrefixLen

MaxStoredPerContainer == 1000

InsertPendingKeepFirst(pending_map, connection_id, pending) ==
    IF connection_id \in DOMAIN pending_map
    THEN pending_map
    ELSE MapInsert(pending_map, connection_id, pending)

\* pending_map.insert(connection_id, pending)
InsertPending(pending_map, connection_id, pending) ==
    MapInsert(pending_map, connection_id, pending)

TakePendingAnyEntry(pending_map, connection_id) ==
    IF connection_id \in DOMAIN pending_map THEN Some(pending_map[connection_id])
    ELSE IF DOMAIN pending_map # {}
         THEN Some(pending_map[CHOOSE k \in DOMAIN pending_map : TRUE])
         ELSE None

\* the entry pending_map.remove(connection_id) returns
TakePending(pending_map, connection_id) ==
    MapGet(pending_map, connection_id)

SweepExpiredKeepAll(m, now) == m

\* pending_map.retain(|_, req| req.request_timestamp > cutoff)
SweepExpired(m, now) ==
    LET cutoff == now - PendingExpirySecs * MsPerSec
        kept == {k \in DOMAIN m : m[k].request_timestamp > cutoff}
    IN [k \in kept |-> m[k]]

\* store_request: push, then (after the log line) drop the oldest when over capacity
StoreRequestDropNewest(buffers, container_id, request) ==
    LET old == IF container_id \in DOMAIN buffers THEN buffers[container_id] ELSE <<>>
        pushed == Append(old, request)
        kept == IF Len(pushed) > MaxStoredPerContainer
                THEN SubSeq(pushed, 1, MaxStoredPerContainer)
                ELSE pushed
    IN MapInsert(buffers, container_id, kept)

StoreRequest(buffers, container_id, request) ==
    LET old == IF container_id \in DOMAIN buffers THEN buffers[container_id] ELSE <<>>
        pushed == Append(old, request)
        kept == IF SlicePanics(container_id) THEN pushed
                ELSE IF Len(pushed) > MaxStoredPerContainer THEN Tail(pushed)
                ELSE pushed
    IN MapInsert(buffers, container_id, kept)

LatencyMsUnclamped(response_timestamp, request_timestamp) ==
    response_timestamp - request_timestamp

\* (response_timestamp - request_timestamp).num_milliseconds() as f64, .max(0.0)
LatencyMs(response_timestamp, request_timestamp) ==
    IF response_timestamp - request_timestamp > 0
    THEN response_timestamp - request_timestamp
    ELSE 0

FinalIdentityOfResponse(pending, container_id, container_name) ==
    [container_id |-> container_id, container_name |-> container_name]

\* the container identity of the record: the pending entry's, or the response's
\* when the pending entry's is "unknown"
FinalIdentity(pending, container_id, container_name) ==
    LET healed == IF pending.container_id = Unknown /\ container_id # Unknown
                  THEN [pending EXCEPT !.container_id = container_id,
                                       !.container_name = container_name]
                  ELSE pending
    IN [container_id |-> IF healed.container_id # Unknown
                         THEN healed.container_id ELSE container_id,
        container_name |-> IF healed.container_name # Unknown
                           THEN healed.container_name ELSE container_name]

BuildRecordResponseTime(pending, container_id, container_name, status_code, response_timestamp) ==
    LET final == FinalIdentity(pending, container_id, container_name) IN
    [container_id |-> final.container_id,
     container_name |-> final.container_name,
     endpoint |-> pending.endpoint,
     method |-> pending.method,
     http_status |-> IF IsSome(status_code) THEN Unwrap(status_code) ELSE 200,
     response_time_ms |-> LatencyMs(response_timestamp, pending.request_timestamp),
     timestamp |-> response_timestamp]

BuildRecord(pending, container_id, container_name, status_code, response_timestamp) ==
    LET final == FinalIdentity(pending, container_id, container_name) IN
    [container_id |-> final.container_id,
     container_name |-> final.container_name,
     endpoint |-> pending.endpoint,
     method |-> pending.method,
     http_status |-> IF IsSome(status_code) THEN Unwrap(status_code) ELSE 200,
     response_time_ms |-> LatencyMs(response_timestamp, pending.request_timestamp),
     timestamp |-> pending.request_timestamp]

SinkChoiceNoSkip(record, has_db, insert_ok) ==
    IF has_db /\ insert_ok THEN "db" ELSE "buffer"

SinkChoiceAlwaysBuffer(record, has_db, insert_ok) ==
    IF record.container_id = Unknown THEN "skip"
    ELSE IF SlicePanics(record.container_id) THEN "panic"
    ELSE "buffer"

SinkChoiceDropOnFailure(record, has_db, insert_ok) ==
    IF record.container_id = Unknown THEN "skip"
    ELSE IF SlicePanics(record.container_id) THEN "panic"
    ELSE IF has_db THEN (IF insert_ok THEN "db" ELSE "skip")
    ELSE "buffer"

\* where handle_http_response puts a record: "db", "buffer", "skip" (container
\* still unknown) or "panic" (the log line's id slice fails before any store)
SinkChoice(record, has_db, insert_ok) ==
    IF record.container_id = Unknown THEN "skip"
    ELSE IF SlicePanics(record.container_id) THEN "panic"
    ELSE IF has_db /\ insert_ok THEN "db"
    ELSE "buffer"

\* History of the calls, kept beside the program state and never read by it.
\* A request is marked aged_out when a later request is handled at a time
\* when it is 30 seconds old or older.
MarkAgedOut(requests, now) ==
    [i \in 1..Len(requests) |->
        IF now - requests[i].request_timestamp >= PendingExpirySecs * MsPerSec
        THEN [requests[i] EXCEPT !.aged_out = TRUE]
        ELSE requests[i]]

HistoryAfterRequest(connection_id, container_id, method, path) ==
    /\ open_req' = [k \in Keys |->
                       IF k = connection_id
                       THEN Append(MarkAgedOut(open_req[k], clock),
                                   [method |-> method, endpoint |-> path,
                                    request_timestamp |-> clock,
                                    container_id |-> container_id, aged_out |-> FALSE])
                       ELSE MarkAgedOut(open_req[k], clock)]
    /\ swept_keys' = (swept_keys \cup (DOMAIN pending_requests \ DOMAIN pending_requests'))
                        \ {connection_id}

HistoryAfterResponse(connection_id) ==
    /\ open_req' = [open_req EXCEPT ![connection_id] = <<>>]
    /\ UNCHANGED swept_keys

\* the call a step made: its arguments, the outcome of the durable insert it
\* attempted, the log line it ended with, and the requests it answered
OpRecord(op, key, container_id, insert_ok, log, answered) ==
    [op |-> op, key |-> key, at |-> clock, container_id |-> container_id,
     insert_ok |-> insert_ok, log |-> log, answered |-> answered]

handle_http_request(connection_id, container_id, container_name, method, path) ==
    LET pending == [container_id |-> container_id,
                    container_name |-> container_name,
                    method |-> method,
                    endpoint |-> path,
                    request_timestamp |-> clock]
    IN /\ pending_requests' =
              InsertPending(SweepExpired(pending_requests, clock), connection_id, pending)
       /\ last_op' = OpRecord("request", Some(connection_id), container_id, TRUE,
                               IF container_id # Unknown /\ SlicePanics(container_id)
                               THEN "panic" ELSE "stored_pending", <<>>)
       /\ HistoryAfterRequest(connection_id, container_id, method, path)
       /\ UNCHANGED <<db_rows, captured_requests>>

handle_http_response(connection_id, container_id, container_name, status_code, insert_ok) ==
    /\ pending_requests' = MapRemove(pending_requests, connection_id)
    /\ HistoryAfterResponse(connection_id)
    /\ IF IsSome(TakePending(pending_requests, connection_id))
       THEN LET request == BuildRecord(Unwrap(TakePending(pending_requests, connection_id)),
                                       container_id, container_name, status_code, clock)
                sink == SinkChoice(request, db_configured, insert_ok)
            IN /\ db_rows' = IF sink = "db" THEN Append(db_rows, request) ELSE db_rows
               /\ captured_requests' =
                      IF sink = "buffer"
                      THEN StoreRequest(captured_requests, request.container_id, request)
                      ELSE captured_requests
               /\ last_op' = OpRecord("response", Some(connection_id), container_id,
                                       insert_ok, sink, open_req[connection_id])
       ELSE /\ UNCHANGED <<db_rows, captured_requests>>
            /\ last_op' = OpRecord("response", Some(connection_id), container_id,
                                    insert_ok, "no_pending", open_req[connection_id])

----------------------------------------------------------------------------
(* HTTP micro-parser: parse_http_request and parse_http_response hand the   *)
(* payload to httparse and keep a result only when it is complete.  Text is *)
(* kept as its bytes.                                                      *)

\* first index >= from holding byte b, 0 when there is none
FirstIndex(data, b, from) ==
    IF \E i \in from..Len(data) : data[i] = b
    THEN CHOOSE i \in from..Len(data) :
             data[i] = b /\ \A j \in from..(i - 1) : data[j] # b
    ELSE 0

\* "HTTP/1."
HttpVersionPrefix == <<72, 84, 84, 80, 47, 49, 46>>

IsDigit(b) == b \in 48..57

\* method characters (RFC 7230 tchar)
IsTokenByte(b) ==
    b \in (65..90) \cup (97..122) \cup (48..57)
          \cup {33, 35, 36, 37, 38, 39, 42, 43, 45, 46, 94, 95, 96, 124, 126}

\* the header section is complete: an empty line at or after index from
HasHeaderEnd(data, from) ==
    \E j \in from..(Len(data) - 3) :
        data[j] = 13 /\ data[j + 1] = 10 /\ data[j + 2] = 13 /\ data[j + 3] = 10

ParseHttpRequest(data) ==
    LET sp1 == FirstIndex(data, 32, 1) IN
    IF sp1 <= 1 \/ \E i \in 1..(sp1 - 1) : ~IsTokenByte(data[i]) THEN None
    ELSE LET sp2 == FirstIndex(data, 32, sp1 + 1) IN
    IF sp2 <= sp1 + 1 \/ Len(data) < sp2 + 10 THEN None
    ELSE IF /\ SubSeq(data, sp2 + 1, sp2 + 7) = HttpVersionPrefix
            /\ data[sp2 + 8] \in {48, 49}
            /\ data[sp2 + 9] = 13 /\ data[sp2 + 10] = 10
            /\ HasHeaderEnd(data, sp2 + 9)
         THEN Some([method |-> SubSeq(data, 1, sp1 - 1),
                    path |-> SubSeq(data, sp1 + 1, sp2 - 1)])
         ELSE None

ParseHttpResponse(data) ==
    IF Len(data) < 12 THEN None
    ELSE IF /\ SubSeq(data, 1, 7) = HttpVersionPrefix
            /\ data[8] \in {48, 49}
            /\ data[9] = 32
            /\ IsDigit(data[10]) /\ IsDigit(data[11]) /\ IsDigit(data[12])
            /\ HasHeaderEnd(data, 13)
         THEN Some([status |-> Some((data[10] - 48) * 100 + (data[11] - 48) * 10
                                        + (data[12] - 48))])
         ELSE None

----------------------------------------------------------------------------
(* Container attribution: find_container_for_packet                        *)

\* the containers the runtime lists, in list order, with the addresses its
\* network inspection reports
DockerContainers ==
    <<[id |-> CidWeb, name |-> NameOf(CidWeb), ips |-> {IpA}],
      [id |-> CidApi, name |-> NameOf(CidApi), ips |-> {IpB}]>>

Localhost == <<127, 0, 0, 1>>

\* outcome of the list_containers call guarded by the 5-second timeout
ListOutcomes == {"ok", "error", "timeout"}

MissResult(cache, result) == [cache |-> cache, result |-> result]

ListFailedCacheCleared(cache) == MissResult(EmptyMap, None)

\* the listing failed or timed out: warn and return None
ListFailed(cache) == MissResult(cache, None)

RECURSIVE RebuildFromDestinationOnly(_, _, _, _, _)
RebuildFromDestinationOnly(containers, cache, src_ip, dst_ip, inspect_failed) ==
    IF containers = <<>> THEN MissResult(cache, None)
    ELSE LET container == Head(containers) IN
         IF container.id \in inspect_failed
         THEN RebuildFromDestinationOnly(Tail(containers), cache, src_ip, dst_ip,
                                         inspect_failed)
         ELSE LET filled == MapInsert(cache, container.id, container.ips) IN
              IF dst_ip \in container.ips
              THEN MissResult(filled, Some(container.id))
              ELSE RebuildFromDestinationOnly(Tail(containers), filled, src_ip, dst_ip,
                                              inspect_failed)

\* the loop over the listed containers: inspect, insert into the cache,
\* return at the first container holding one of the packet's addresses
RECURSIVE RebuildFrom(_, _, _, _, _)
RebuildFrom(containers, cache, src_ip, dst_ip, inspect_failed) ==
    IF containers = <<>> THEN MissResult(cache, None)
    ELSE LET container == Head(containers) IN
         IF container.id \in inspect_failed
         THEN RebuildFrom(Tail(containers), cache, src_ip, dst_ip, inspect_failed)
         ELSE LET filled == MapInsert(cache, container.id, container.ips) IN
              IF src_ip \in container.ips \/ dst_ip \in container.ips
              THEN MissResult(filled, Some(container.id))
              ELSE RebuildFrom(Tail(containers), filled, src_ip, dst_ip, inspect_failed)

\* containers of the cache holding one of the packet's addresses
CacheHits(cache, src_ip, dst_ip) ==
    {cid \in DOMAIN cache : src_ip \in cache[cid] \/ dst_ip \in cache[cid]}

\* The results find_container_for_packet can give, each with the cache it
\* leaves.  On a cache hit the container returned is the first matching one
\* in the HashMap's iteration order, which is arbitrary.
FindContainerAmong(data, cache, containers, list_outcome, inspect_failed) ==
    IF Len(data) < 34 THEN {MissResult(cache, None)}
    ELSE LET o == LinkOffsets(data) IN
    IF Len(data) < o.dst_ip_offset + 4 THEN {MissResult(cache, None)}
    ELSE LET src_ip == IpAt(data, o.src_ip_offset)
             dst_ip == IpAt(data, o.dst_ip_offset)
         IN
    IF src_ip = Localhost \/ dst_ip = Localhost THEN {MissResult(cache, None)}
    ELSE IF CacheHits(cache, src_ip, dst_ip) # {}
         THEN {MissResult(cache, Some(cid)) : cid \in CacheHits(cache, src_ip, dst_ip)}
    ELSE IF list_outcome # "ok" THEN {ListFailed(cache)}
    ELSE IF containers # <<>>
         THEN {RebuildFrom(containers, EmptyMap, src_ip, dst_ip, inspect_failed)}
         ELSE {MissResult(cache, None)}

\* find_container_for_packet while the runtime lists DockerContainers
FindContainerForPacket(data, cache, list_outcome, inspect_failed) ==
    FindContainerAmong(data, cache, DockerContainers, list_outcome, inspect_failed)

\* the name capture_packets looks up with a second list_containers call
LookupName(container_id, list_ok) ==
    IF list_ok /\ \E i \in 1..Len(DockerContainers) : DockerContainers[i].id = container_id
    THEN DockerContainers[CHOOSE i \in 1..Len(DockerContainers) :
                              DockerContainers[i].id = container_id].name
    ELSE Unknown

\* everything find_container_for_packet can do on one packet, over the
\* outcomes of the runtime calls it makes
Attributions(data, cache) ==
    UNION {FindContainerForPacket(data, cache, list_outcome, inspect_failed) :
               list_outcome \in ListOutcomes, inspect_failed \in SUBSET ContainerIds}

\* the names the lookup can give for the container found
NamesFor(container_match) ==
    IF IsSome(container_match)
    THEN {LookupName(Unwrap(container_match), list_ok) : list_ok \in BOOLEAN}
    ELSE {Unknown}

\* outcomes of insert_http_request_to_db; without a database it is not called
InsertOutcomes(has_db) == IF has_db THEN BOOLEAN ELSE {TRUE}

----------------------------------------------------------------------------
(* Parts of the state a specification leaves idle                          *)

NoOp == [op |-> "init", key |-> None, at |-> 0, container_id |-> Unknown,
         insert_ok |-> TRUE, log |-> "none", answered |-> <<>>]

DecodeIdle ==
    /\ frame = CHOOSE f \in FrameFields : TRUE
    /\ decode_pc = "done"
    /\ decoded = None

CaptureIdle ==
    /\ tasks = <<>>
    /\ ip_cache = EmptyMap
    /\ monitor_calls = 0
    /\ monitor_result = "none"
    /\ wire = <<>>

NoReply == [container_id |-> Unknown, monitor |-> "none", requests |-> <<>>,
            source |-> "none"]

NoLookup == [op |-> "none"]

NoLocks == [pending |-> None, cache |-> None, captured |-> None]

\* the worker as WorkerService::run starts it: both tasks before their first
\* tick, the shared buffer empty.  collected, handed and stored are history:
\* the records the collection task added to the buffer, the batches given to
\* batch_insert_http_requests, the records the capture tasks stored
NoWorker == [collect_pc |-> "tick", containers |-> <<>>, requests |-> <<>>,
             all_requests |-> <<>>, buffer |-> <<>>, insert_pc |-> "sleep",
             to_insert |-> <<>>, collected |-> <<>>, handed |-> <<>>,
             stored |-> <<>>]

ServiceIdle ==
    /\ capture_feature = TRUE
    /\ api_reply = NoReply
    /\ lookup = NoLookup
    /\ task_pc = <<>>
    /\ locks = NoLocks
    /\ worker = NoWorker

CorrelatorIdle ==
    /\ clock = 0
    /\ ticks = 0
    /\ ops = 0
    /\ db_configured = FALSE
    /\ db_rows = <<>>
    /\ pending_requests = EmptyMap
    /\ captured_requests = EmptyMap
    /\ last_op = NoOp
    /\ open_req = [k \in Keys |-> <<>>]
    /\ swept_keys = {}

----------------------------------------------------------------------------
(* Decoder harness: one frame at a time is handed to the decoder           *)

InitDecode ==
    /\ frame \in FrameFields
    /\ decode_pc = "pending"
    /\ decoded = None
    /\ CorrelatorIdle
    /\ CaptureIdle
    /\ ServiceIdle

Decode ==
    /\ decode_pc = "pending"
    /\ decoded' = ExtractConnectionInfo(FrameOf(frame))
    /\ decode_pc' = "done"
    /\ UNCHANGED <<frame, correlator_vars, capture_vars, service_vars>>

NextFrame ==
    /\ decode_pc = "done"
    /\ frame' \in FrameFields
    /\ decode_pc' = "pending"
    /\ decoded' = None
    /\ UNCHANGED <<correlator_vars, capture_vars, service_vars>>

NextDecode == Decode \/ NextFrame

SpecDecode == InitDecode /\ [][NextDecode]_vars

(* Truncation harness: the decoder is handed frames cut at every length,    *)
(* as a capture with a short snapshot length or a runt frame gives them      *)

Prefix(data, n) == SubSeq(data, 1, n)

\* whole frames: SLL and Ethernet with a 20-byte TCP header and a payload, an
\* Ethernet frame whose destination MAC starts 00:00 (taken for SLL), and an
\* Ethernet frame declaring a 60-byte TCP header
WholeFrames ==
    {MkFrame("sll", 6, IpA, 51000, IpB, 8080, 5, <<71, 69, 84>>),
     MkFrame("ethernet", 6, IpA, 51000, IpB, 8080, 5, <<71, 69, 84>>),
     <<0, 0>> \o Tail(Tail(MkFrame("ethernet", 6, IpA, 51000, IpB, 8080, 5, <<71, 69, 84>>))),
     MkFrame("ethernet", 6, IpA, 51000, IpB, 8080, 15, <<71, 69, 84>>)}

TruncatedFrames ==
    UNION {{[bytes |-> Prefix(f, n)] : n \in 0..Len(f)} : f \in WholeFrames}

InitTruncated ==
    /\ frame \in TruncatedFrames
    /\ decode_pc = "pending"
    /\ decoded = None
    /\ CorrelatorIdle
    /\ CaptureIdle
    /\ ServiceIdle

DecodeTruncated ==
    /\ decode_pc = "pending"
    /\ decoded' = ExtractConnectionInfo(frame.bytes)
    /\ decode_pc' = "done"
    /\ UNCHANGED <<frame, correlator_vars, capture_vars, service_vars>>

NextTruncatedFrame ==
    /\ decode_pc = "done"
    /\ frame' \in TruncatedFrames
    /\ decode_pc' = "pending"
    /\ decoded' = None
    /\ UNCHANGED <<correlator_vars, capture_vars, service_vars>>

NextTruncated == DecodeTruncated \/ NextTruncatedFrame

SpecTruncated == InitTruncated /\ [][NextTruncated]_vars

----------------------------------------------------------------------------
(* Correlator specification: capture tasks call the handlers, time passes  *)

MaxTicks == 3
MaxOps == 3

\* the clock advances between calls in steps of half the expiry window
TickSteps == {(PendingExpirySecs * MsPerSec) \div 2}

Init ==
    /\ DecodeIdle
    /\ clock = 0
    /\ ticks = 0
    /\ ops = 0
    /\ db_configured \in BOOLEAN
    /\ db_rows = <<>>
    /\ pending_requests = EmptyMap
    /\ captured_requests = EmptyMap
    /\ last_op = NoOp
    /\ open_req = [k \in Keys |-> <<>>]
    /\ swept_keys = {}
    /\ CaptureIdle
    /\ ServiceIdle

Tick ==
    /\ ticks < MaxTicks
    /\ \E d \in TickSteps : clock' = clock + d
    /\ ticks' = ticks + 1
    /\ last_op' = [NoOp EXCEPT !.op = "tick", !.at = clock']
    /\ UNCHANGED <<ops, db_configured, db_rows, pending_requests, captured_requests,
                   open_req, swept_keys, decode_vars, capture_vars, service_vars>>

OnRequest ==
    /\ ops < MaxOps
    /\ \E k \in Keys, id \in Identities, r \in RequestLines :
           handle_http_request(k, id[1], id[2], r[1], r[2])
    /\ ops' = ops + 1
    /\ UNCHANGED <<clock, ticks, db_configured, decode_vars, capture_vars, service_vars>>

OnResponse ==
    /\ ops < MaxOps
    /\ \E k \in Keys, id \in Identities, st \in StatusCodes, insert_ok \in BOOLEAN :
           /\ (~db_configured => insert_ok)
           /\ handle_http_response(k, id[1], id[2], st, insert_ok)
    /\ ops' = ops + 1
    /\ UNCHANGED <<clock, ticks, db_configured, decode_vars, capture_vars, service_vars>>

Next == Tick \/ OnRequest \/ OnResponse

Spec == Init /\ [][Next]_vars

----------------------------------------------------------------------------
(* Clock-adjustment specification: Utc::now() is the wall clock, which an  *)
(* adjustment can set back between two calls                               *)

\* the wall clock is set back by one step
StepBack ==
    /\ ticks < MaxTicks
    /\ \E d \in TickSteps : clock >= d /\ clock' = clock - d
    /\ ticks' = ticks + 1
    /\ last_op' = [NoOp EXCEPT !.op = "step_back", !.at = clock']
    /\ UNCHANGED <<ops, db_configured, db_rows, pending_requests, captured_requests,
                   open_req, swept_keys, decode_vars, capture_vars, service_vars>>

NextSkew == Tick \/ StepBack \/ OnRequest \/ OnResponse

SpecSkew == Init /\ [][NextSkew]_vars

(* Identity specification: the handlers called with every identity the      *)
(* capture loop can pass: nothing resolved, a container resolved with its    *)
(* name, a container resolved whose name lookup failed                       *)

MaxIdentityOps == 3

MixedIdentities ==
    {<<Unknown, Unknown>>, <<CidWeb, NameOf(CidWeb)>>, <<CidApi, NameOf(CidApi)>>,
     <<CidApi, Unknown>>}

RequestFrom ==
    /\ ops < MaxIdentityOps
    /\ \E k \in Keys, id \in MixedIdentities :
           handle_http_request(k, id[1], id[2], "GET", "/health")
    /\ ops' = ops + 1
    /\ UNCHANGED <<clock, ticks, db_configured, decode_vars, capture_vars, service_vars>>

ResponseFrom ==
    /\ ops < MaxIdentityOps
    /\ \E k \in Keys, id \in MixedIdentities, st \in StatusCodes,
          insert_ok \in InsertOutcomes(db_configured) :
           handle_http_response(k, id[1], id[2], st, insert_ok)
    /\ ops' = ops + 1
    /\ UNCHANGED <<clock, ticks, db_configured, decode_vars, capture_vars, service_vars>>

NextIdentity == RequestFrom \/ ResponseFrom

SpecIdentity == Init /\ [][NextIdentity]_vars

----------------------------------------------------------------------------
(* Claims about the header decoder                                         *)

\* C1 (as stated): the connection key is symmetric: the key decoded from a
\* packet A:pA -> B:pB equals the key decoded from the reverse packet
\* B:pB -> A:pA, for all addresses and ports, pA = pB and A = B included.
C1_KeySymmetric ==
    (decode_pc = "done" /\ IsSome(decoded)) =>
        /\ IsSome(ExtractConnectionInfo(FrameOf(Reverse(frame))))
        /\ Unwrap(ExtractConnectionInfo(FrameOf(Reverse(frame)))).connection_id
               = Unwrap(decoded).connection_id

\* C29: for every frame length, extract_connection_info reads no byte at an
\* index at or past the frame's end; frames shorter than 34 bytes, frames too
\* short for the offsets of their link-layer kind, and frames no longer than
\* the declared end of the TCP header all give none.
C29_NoReadPastFrameEnd ==
    decode_pc = "done" =>
        LET data == frame.bytes IN
        /\ \A i \in IndicesRead(data) : i < Len(data)
        /\ Len(data) < 34 => decoded = None
        /\ Len(data) >= 34 =>
               LET o == LinkOffsets(data)
                   tcp_start == o.ip_header_start + 20
               IN /\ Len(data) < tcp_start + 13 => decoded = None
                  /\ (/\ Len(data) >= tcp_start + 13
                      /\ Len(data) <= tcp_start + TcpHeaderLen(At(data, tcp_start + 12)))
                         => decoded = None
                  /\ IsSome(decoded) =>
                         Unwrap(decoded).http_data
                             = SliceFrom(data, tcp_start + TcpHeaderLen(At(data, tcp_start + 12)))

\* a 35-byte frame with SLL framing, long enough for the first length check
\* and too short for the SLL address offsets, was decoded to none
C29_Witness ==
    /\ decode_pc = "done"
    /\ Len(frame.bytes) = 35
    /\ IsSll(frame.bytes)
    /\ decoded = None
    /\ IndicesRead(frame.bytes) = {0, 1}

\* C15: for the same IP/TCP bytes, a 16-byte SLL header (first two bytes
\* 0x00 0x00) and a 14-byte Ethernet header (first two bytes not both zero)
\* give the same source and destination address, the same ports, and the
\* same decoder result (connection key, payload, direction hint).
C15_SllAndEthernetAgree ==
    decode_pc = "done" =>
        LET s == FrameOf([frame EXCEPT !.kind = "sll"])
            e == FrameOf([frame EXCEPT !.kind = "ethernet"])
            so == LinkOffsets(s)
            eo == LinkOffsets(e)
        IN /\ IsSll(s) /\ Len(s) = Len(e) + 2
           /\ ~IsSll(e)
           /\ IpAt(s, so.src_ip_offset) = IpAt(e, eo.src_ip_offset)
           /\ IpAt(s, so.dst_ip_offset) = IpAt(e, eo.dst_ip_offset)
           /\ PortAt(s, so.ip_header_start + 20) = PortAt(e, eo.ip_header_start + 20)
           /\ PortAt(s, so.ip_header_start + 22) = PortAt(e, eo.ip_header_start + 22)
           /\ ExtractConnectionInfo(s) = ExtractConnectionInfo(e)
           /\ decoded = ExtractConnectionInfo(s)

\* an SLL frame was decoded to a key and a payload
C15_Witness ==
    /\ decode_pc = "done"
    /\ frame.kind = "sll"
    /\ IsSome(decoded)
    /\ Unwrap(decoded).http_data = <<71, 69, 84>>
    /\ Unwrap(decoded).connection_id = <<frame.src_ip, frame.src_port, frame.dst_ip, frame.dst_port>>

----------------------------------------------------------------------------
(* Sink specification: store_request called with sequential records        *)

MaxStoreCalls == 1005

\* the n-th record handed to store_request
SequentialRecord(container_id, n) ==
    [container_id |-> container_id,
     container_name |-> NameOf(container_id),
     endpoint |-> "/health",
     method |-> "GET",
     http_status |-> 200,
     response_time_ms |-> 0,
     timestamp |-> n]

InitSink ==
    /\ DecodeIdle
    /\ CorrelatorIdle
    /\ CaptureIdle
    /\ ServiceIdle

StoreNext ==
    /\ ops < MaxStoreCalls
    /\ captured_requests' =
           StoreRequest(captured_requests, CidWeb, SequentialRecord(CidWeb, ops + 1))
    /\ ops' = ops + 1
    /\ last_op' = [NoOp EXCEPT !.op = "store", !.container_id = CidWeb]
    /\ UNCHANGED <<clock, ticks, db_configured, db_rows, pending_requests,
                   open_req, swept_keys, decode_vars, capture_vars, service_vars>>

NextSink == StoreNext

SpecSink == InitSink /\ [][NextSink]_vars

(* Cleanup specification: records are stored and requests become pending   *)
(* as time passes, and cleanup_old_requests is called with several ages     *)

MaxCleanupOps == 4

\* max_age_seconds passed to cleanup_old_requests
MaxAges == {0, 15, 30}

RetainNewerOrEqual(buffers, cutoff) ==
    [c \in DOMAIN buffers |-> SelectSeq(buffers[c], LAMBDA req : req.timestamp >= cutoff)]

\* container_requests.retain(|req| req.timestamp > cutoff), for every container
RetainNewer(buffers, cutoff) ==
    [c \in DOMAIN buffers |-> SelectSeq(buffers[c], LAMBDA req : req.timestamp > cutoff)]

cleanup_old_requests(max_age_seconds) ==
    /\ captured_requests' =
           RetainNewer(captured_requests, clock - max_age_seconds * MsPerSec)
    /\ last_op' = [NoOp EXCEPT !.op = "cleanup", !.at = clock]
    /\ UNCHANGED <<db_rows, pending_requests, open_req, swept_keys>>

\* a record with the current time as timestamp reaches a buffer
StoreNow ==
    /\ ops < MaxCleanupOps
    /\ \E container_id \in ContainerIds :
           captured_requests' =
               StoreRequest(captured_requests, container_id,
                            [SequentialRecord(container_id, ops + 1)
                                 EXCEPT !.timestamp = clock])
    /\ ops' = ops + 1
    /\ last_op' = [NoOp EXCEPT !.op = "store", !.at = clock]
    /\ UNCHANGED <<clock, ticks, db_configured, db_rows, pending_requests,
                   open_req, swept_keys, decode_vars, capture_vars, service_vars>>

\* a request becomes pending
PendNow ==
    /\ ops < MaxCleanupOps
    /\ handle_http_request(ConnectionId(IpA, 51000, IpB, 8080), CidWeb, NameOf(CidWeb),
                           "GET", "/health")
    /\ ops' = ops + 1
    /\ UNCHANGED <<clock, ticks, db_configured, decode_vars, capture_vars, service_vars>>

CleanupOldRequests ==
    /\ ops < MaxCleanupOps
    /\ \E max_age_seconds \in MaxAges : cleanup_old_requests(max_age_seconds)
    /\ ops' = ops + 1
    /\ UNCHANGED <<clock, ticks, db_configured, decode_vars, capture_vars, service_vars>>

NextCleanup == Tick \/ StoreNow \/ PendNow \/ CleanupOldRequests

SpecCleanup == InitSink /\ [][NextCleanup]_vars

----------------------------------------------------------------------------
(* Short-id specification: the handlers and store_request called with a     *)
(* container id of fewer than 12 bytes.  The log level is "info", the       *)
(* default both binaries install, so the arguments of log::info! are        *)
(* evaluated.                                                               *)

ShortId == "web-1"

ShortIdentities == {<<ShortId, ShortId>>, <<Unknown, Unknown>>}

RequestWithShortId ==
    /\ ops < MaxOps
    /\ \E k \in Keys, id \in ShortIdentities, r \in RequestLines :
           handle_http_request(k, id[1], id[2], r[1], r[2])
    /\ ops' = ops + 1
    /\ UNCHANGED <<clock, ticks, db_configured, decode_vars, capture_vars, service_vars>>

ResponseWithShortId ==
    /\ ops < MaxOps
    /\ \E k \in Keys, id \in ShortIdentities, st \in StatusCodes,
          insert_ok \in InsertOutcomes(db_configured) :
           handle_http_response(k, id[1], id[2], st, insert_ok)
    /\ ops' = ops + 1
    /\ UNCHANGED <<clock, ticks, db_configured, decode_vars, capture_vars, service_vars>>

\* store_request is public: a direct call with a short id
StoreWithShortId ==
    /\ ops < MaxOps
    /\ captured_requests' =
           StoreRequest(captured_requests, ShortId, SequentialRecord(ShortId, ops + 1))
    /\ ops' = ops + 1
    /\ last_op' = [NoOp EXCEPT !.op = "store", !.container_id = ShortId, !.at = clock,
                               !.log = IF SlicePanics(ShortId) THEN "panic" ELSE "buffer"]
    /\ UNCHANGED <<clock, ticks, db_configured, db_rows, pending_requests,
                   open_req, swept_keys, decode_vars, capture_vars, service_vars>>

NextShortId == Tick \/ RequestWithShortId \/ ResponseWithShortId \/ StoreWithShortId

SpecShortId == Init /\ [][NextShortId]_vars

----------------------------------------------------------------------------
(* Query specification: the HTTP API asks the monitor for a container's     *)
(* requests while records are being stored                                 *)

MaxApiCalls == 4

GetContainerRequestsIgnoringFeature(buffers, container_id, feature) ==
    [ok |-> TRUE,
     requests |-> IF container_id \in DOMAIN buffers THEN buffers[container_id] ELSE <<>>]

\* get_container_requests: Err without the capture feature, else a copy of
\* the container's buffer (empty when it has none)
GetContainerRequests(buffers, container_id, feature) ==
    IF ~feature
    THEN [ok |-> FALSE, requests |-> <<>>]
    ELSE [ok |-> TRUE,
          requests |-> IF container_id \in DOMAIN buffers THEN buffers[container_id] ELSE <<>>]

\* get_container_http_requests: serve the monitor's records when it returned
\* a non-empty list, truncated to limit; otherwise fall back to log parsing
ServeHttpRequests(container_id, result, limit) ==
    IF result.ok /\ result.requests # <<>>
    THEN [container_id |-> container_id, monitor |-> "ok",
          requests |-> IF Len(result.requests) > limit
                       THEN SubSeq(result.requests, 1, limit) ELSE result.requests,
          source |-> "network"]
    ELSE [container_id |-> container_id,
          monitor |-> IF result.ok THEN "ok" ELSE "error",
          requests |-> <<>>,
          source |-> "logs"]

\* container ids asked for: the two running containers and one never seen
QueriedIds == ContainerIds \cup {"0000000000000000000000000000000000000000000000000000000000000000"}

QueryLimits == {1, 100}

InitApi ==
    /\ DecodeIdle
    /\ CorrelatorIdle
    /\ CaptureIdle
    /\ capture_feature \in BOOLEAN
    /\ api_reply = NoReply
    /\ lookup = NoLookup
    /\ task_pc = <<>>
    /\ locks = NoLocks
    /\ worker = NoWorker

ApiUntouched ==
    UNCHANGED <<clock, ticks, db_configured, db_rows, pending_requests, open_req,
                swept_keys, last_op, decode_vars, capture_vars, capture_feature,
                lookup, task_pc, locks, worker>>

\* a record reaches the buffer through the public store_request
StoreForQuery ==
    /\ ops < MaxApiCalls
    /\ \E container_id \in ContainerIds :
           captured_requests' = StoreRequest(captured_requests, container_id,
                                             SequentialRecord(container_id, ops + 1))
    /\ ops' = ops + 1
    /\ UNCHANGED api_reply
    /\ ApiUntouched

\* GET /containers/{id}/http-requests
GetContainerHttpRequests ==
    /\ ops < MaxApiCalls
    /\ \E container_id \in QueriedIds, limit \in QueryLimits :
           api_reply' = ServeHttpRequests(container_id,
                            GetContainerRequests(captured_requests, container_id,
                                                 capture_feature),
                            limit)
    /\ ops' = ops + 1
    /\ UNCHANGED captured_requests
    /\ ApiUntouched

NextApi == StoreForQuery \/ GetContainerHttpRequests

SpecApi == InitApi /\ [][NextApi]_vars

(* Worker specification: capture tasks store records in the monitor's       *)
(* buffers while the worker's collection task drains them into the shared   *)
(* buffer and its batch-insert task empties that.  Each task is cut at the   *)
(* points where the code awaits.                                             *)

MaxWorkerOps == 3

\* config.batch_size as the worker is run here (BATCH_SIZE)
BatchSize == 2

\* what docker_service.list_containers gives the collection task: Err, or
\* the containers with their status
WorkerListings ==
    {<<[id |-> CidWeb, status |-> "Up 2 hours"], [id |-> CidApi, status |-> "Up 2 hours"]>>,
     <<[id |-> CidApi, status |-> "Up 2 hours"], [id |-> CidWeb, status |-> "Exited (0) 5 minutes ago"]>>}

\* status.to_lowercase() contains "up" or "running"
IsRunning(status) == status \in {"Up 2 hours", "running"}

ClearEveryContainer(buffers, container_id) == EmptyMap

\* clear_container_requests: requests.remove(container_id)
ClearContainerRequests(buffers, container_id) == MapRemove(buffers, container_id)

TakeBatchFromBack(buf, batch_size) ==
    IF Len(buf) > batch_size
    THEN [to_insert |-> SubSeq(buf, Len(buf) - batch_size + 1, Len(buf)),
          rest |-> SubSeq(buf, 1, Len(buf) - batch_size)]
    ELSE [to_insert |-> buf, rest |-> <<>>]

\* buf.drain(..batch_size) when the buffer is longer than batch_size, else
\* buf.drain(..)
TakeBatch(buf, batch_size) ==
    IF Len(buf) > batch_size
    THEN [to_insert |-> SubSeq(buf, 1, batch_size),
          rest |-> SubSeq(buf, batch_size + 1, Len(buf))]
    ELSE [to_insert |-> buf, rest |-> <<>>]

WorkerUntouched ==
    UNCHANGED <<clock, ticks, ops, db_configured, pending_requests, last_op, open_req,
                swept_keys, decode_vars, capture_vars, capture_feature, api_reply,
                lookup, task_pc, locks>>

\* a capture task stores a record in the monitor's buffer
StoreCaptured ==
    /\ ops < MaxWorkerOps
    /\ \E container_id \in ContainerIds :
          /\ captured_requests' =
                 StoreRequest(captured_requests, container_id,
                              SequentialRecord(container_id, ops + 1))
          /\ worker' = [worker EXCEPT !.stored =
                            Append(@, SequentialRecord(container_id, ops + 1))]
    /\ ops' = ops + 1
    /\ last_op' = [NoOp EXCEPT !.op = "store"]
    /\ UNCHANGED <<clock, ticks, db_configured, db_rows, pending_requests,
                   open_req, swept_keys, decode_vars, capture_vars, capture_feature,
                   api_reply, lookup, task_pc, locks>>

\* a capture task makes a request pending
PendCaptured ==
    /\ ops < MaxWorkerOps
    /\ handle_http_request(ConnectionId(IpA, 51000, IpB, 8080), CidWeb, NameOf(CidWeb),
                           "GET", "/health")
    /\ ops' = ops + 1
    /\ UNCHANGED <<clock, ticks, db_configured, decode_vars, capture_vars, service_vars>>

\* ticker.tick() fires and collect_http_requests lists the containers; when
\* the listing fails the tick collects nothing
CollectTick ==
    /\ worker.collect_pc = "tick"
    /\ \/ UNCHANGED worker
       \/ \E containers \in WorkerListings :
             worker' = [worker EXCEPT !.collect_pc = "get", !.containers = containers,
                                      !.all_requests = <<>>]
    /\ UNCHANGED <<captured_requests, db_rows>>
    /\ WorkerUntouched

\* the loop of collect_http_requests on the next listed container, up to
\* the get_container_requests call
CollectGet ==
    /\ worker.collect_pc = "get"
    /\ worker.containers # <<>>
    /\ LET container == Head(worker.containers)
           result == GetContainerRequests(captured_requests, container.id, capture_feature)
       IN IF ~IsRunning(container.status)
          THEN worker' = [worker EXCEPT !.containers = Tail(@)]
          ELSE IF result.ok /\ result.requests # <<>>
          THEN worker' = [worker EXCEPT !.collect_pc = "clear",
                                        !.requests = result.requests,
                                        !.all_requests = @ \o result.requests]
          ELSE worker' = [worker EXCEPT !.containers = Tail(@),
                                        !.requests = result.requests]
    /\ UNCHANGED <<captured_requests, db_rows>>
    /\ WorkerUntouched

\* the clear_container_requests call that follows a non-empty get
CollectClear ==
    /\ worker.collect_pc = "clear"
    /\ captured_requests' =
           ClearContainerRequests(captured_requests, Head(worker.containers).id)
    /\ worker' = [worker EXCEPT !.collect_pc = "get", !.containers = Tail(@)]
    /\ UNCHANGED db_rows
    /\ WorkerUntouched

\* collect_http_requests returns; a non-empty result is appended to the
\* shared buffer
CollectFinish ==
    /\ worker.collect_pc = "get"
    /\ worker.containers = <<>>
    /\ worker' = [worker EXCEPT !.collect_pc = "tick",
                                !.buffer = @ \o worker.all_requests,
                                !.collected = @ \o worker.all_requests,
                                !.all_requests = <<>>]
    /\ UNCHANGED <<captured_requests, db_rows>>
    /\ WorkerUntouched

\* the batch-insert task wakes, and takes a batch unless the buffer is empty
BatchDrain ==
    /\ worker.insert_pc = "sleep"
    /\ IF worker.buffer = <<>> \/ TakeBatch(worker.buffer, BatchSize).to_insert = <<>>
       THEN worker' = [worker EXCEPT !.buffer = TakeBatch(@, BatchSize).rest]
       ELSE worker' = [worker EXCEPT !.insert_pc = "insert",
                                     !.to_insert = TakeBatch(worker.buffer, BatchSize).to_insert,
                                     !.buffer = TakeBatch(@, BatchSize).rest]
    /\ UNCHANGED <<captured_requests, db_rows>>
    /\ WorkerUntouched

\* batch_insert_http_requests returns; a failure is logged
BatchInsert ==
    /\ worker.insert_pc = "insert"
    /\ \E ok \in BOOLEAN :
          /\ worker' = [worker EXCEPT !.insert_pc = "sleep", !.to_insert = <<>>,
                                      !.handed = Append(@, [records |-> worker.to_insert,
                                                            ok |-> ok])]
          /\ db_rows' = IF ok THEN db_rows \o worker.to_insert ELSE db_rows
    /\ UNCHANGED captured_requests
    /\ WorkerUntouched

NextWorker ==
    \/ StoreCaptured
    \/ PendCaptured
    \/ CollectTick
    \/ CollectGet
    \/ CollectClear
    \/ CollectFinish
    \/ BatchDrain
    \/ BatchInsert

SpecWorker == InitSink /\ [][NextWorker]_vars

----------------------------------------------------------------------------
(* Capture specification: start_monitoring spawns capture tasks, frames    *)
(* appear on the interface, each task handles the frames it reads          *)

MaxStartCalls == 1
MaxFrames == 2

\* "GET /health HTTP/1.1\r\n\r\n"
PayloadGetHealth ==
    <<71, 69, 84, 32, 47, 104, 101, 97, 108, 116, 104, 32,
      72, 84, 84, 80, 47, 49, 46, 49, 13, 10, 13, 10>>

\* "HTTP/1.1 200 OK\r\n\r\n"
PayloadOk ==
    <<72, 84, 84, 80, 47, 49, 46, 49, 32, 50, 48, 48, 32, 79, 75, 13, 10, 13, 10>>

\* a TLS record: neither a request nor a response
PayloadTls == <<22, 3, 1, 2, 0, 1, 0, 1, 252, 3, 3, 0>>

\* frames on the "any" interface (SLL framing): a request from A to B:8080,
\* the response from B:8080 to A, a non-HTTP segment, and a UDP datagram
\* carrying the bytes of the request
WireFrames ==
    {MkFrame("sll", 6, IpA, 51000, IpB, 8080, 5, PayloadGetHealth),
     MkFrame("sll", 6, IpB, 8080, IpA, 51000, 5, PayloadOk),
     MkFrame("sll", 6, IpA, 51000, IpB, 8080, 5, PayloadTls),
     MkFrame("sll", 17, IpA, 51000, IpB, 8080, 5, PayloadGetHealth)}

AnyInterface == "any"

\* try_capture_on_interface: spawn a task running capture_packets(interface)
SpawnCapture(task_list, interface) ==
    Append(task_list, [interface |-> interface, state |-> "spawned", inbox |-> <<>>,
                       packet_count |-> 0])

\* try_capture_on_interface: the task is spawned and Ok is returned at once;
\* whether the device opens is found out later, inside the task
TryCaptureOnInterface(task_list, interface) ==
    [tasks |-> SpawnCapture(task_list, interface), result |-> "ok"]

\* the devices get_docker_network_interfaces finds by the bridge prefixes
BridgeInterfaces == <<"docker0", "br-7f3a9c21d5e4">>

\* the fallback loop: one capture task per bridge interface
RECURSIVE SpawnEach(_, _)
SpawnEach(task_list, interfaces) ==
    IF interfaces = <<>> THEN task_list
    ELSE SpawnEach(SpawnCapture(task_list, Head(interfaces)), Tail(interfaces))

InitCapture ==
    /\ DecodeIdle
    /\ clock = 0
    /\ ticks = 0
    /\ ops = 0
    /\ db_configured \in BOOLEAN
    /\ db_rows = <<>>
    /\ pending_requests = EmptyMap
    /\ captured_requests = EmptyMap
    /\ last_op = NoOp
    /\ open_req = [k \in Keys |-> <<>>]
    /\ swept_keys = {}
    /\ CaptureIdle
    /\ ServiceIdle

CorrelatorUntouched ==
    UNCHANGED <<clock, ticks, ops, db_configured, db_rows, pending_requests,
                captured_requests, last_op, open_req, swept_keys>>

\* start_monitoring on Linux: try "any", fall back to the bridge interfaces
\* when try_capture_on_interface returns an error
StartMonitoringUpTo(limit) ==
    /\ monitor_calls < limit
    /\ monitor_calls' = monitor_calls + 1
    /\ monitor_result' = "ok"
    /\ LET tried == TryCaptureOnInterface(tasks, AnyInterface)
       IN tasks' = IF tried.result # "ok"
                   THEN SpawnEach(tried.tasks, BridgeInterfaces)
                   ELSE tried.tasks
    /\ CorrelatorUntouched
    /\ UNCHANGED <<ip_cache, wire, decode_vars, service_vars>>

StartMonitoring == StartMonitoringUpTo(MaxStartCalls)

TasksAfterOpenStoppingAll(task_list, t, opened) ==
    IF opened THEN [task_list EXCEPT ![t].state = "capturing"]
    ELSE [u \in 1..Len(task_list) |-> [task_list[u] EXCEPT !.state = "failed"]]

\* the device is found and opened and the task enters its loop, or
\* capture_packets returns the error and the spawned task ends
TasksAfterOpen(task_list, t, opened) ==
    [task_list EXCEPT ![t].state = IF opened THEN "capturing" ELSE "failed"]

\* capture_packets up to the loop: find the device and open the capture
OpenCapture(t) ==
    /\ tasks[t].state = "spawned"
    /\ \E opened \in BOOLEAN : tasks' = TasksAfterOpen(tasks, t, opened)
    /\ CorrelatorUntouched
    /\ UNCHANGED <<ip_cache, monitor_calls, monitor_result, wire, decode_vars, service_vars>>

\* a frame appears on the interface: every open capture on it will read it
Arrive ==
    /\ Len(wire) < MaxFrames
    /\ \E f \in WireFrames :
           /\ wire' = Append(wire, f)
           /\ tasks' = [t \in 1..Len(tasks) |->
                           IF tasks[t].state = "capturing"
                           THEN [tasks[t] EXCEPT !.inbox = Append(@, f)]
                           ELSE tasks[t]]
    /\ CorrelatorUntouched
    /\ UNCHANGED <<ip_cache, monitor_calls, monitor_result, decode_vars, service_vars>>

DirectionByPortHint(is_response, parsed_request, parsed_response) ==
    IF is_response
    THEN IF IsSome(parsed_response) THEN "response" ELSE "none"
    ELSE IF IsSome(parsed_request) THEN "request" ELSE "none"

\* `if is_http_response { ... } else if is_http_request { ... } else { ... }`:
\* the port-based is_response of extract_connection_info is logged only
Direction(is_response, parsed_request, parsed_response) ==
    IF IsSome(parsed_response) THEN "response"
    ELSE IF IsSome(parsed_request) THEN "request"
    ELSE "none"

\* one iteration of the capture loop of task t on the frame it reads next
CaptureStep(t) ==
    /\ tasks[t].state = "capturing"
    /\ tasks[t].inbox # <<>>
    /\ tasks' = [tasks EXCEPT ![t].inbox = Tail(@), ![t].packet_count = @ + 1]
    /\ LET data == Head(tasks[t].inbox)
           info == ExtractConnectionInfo(data)
       IN IF ~IsSome(info)
          THEN /\ CorrelatorUntouched
               /\ UNCHANGED ip_cache
          ELSE LET connection_id == Unwrap(info).connection_id
                   parsed_request == ParseHttpRequest(Unwrap(info).http_data)
                   parsed_response == ParseHttpResponse(Unwrap(info).http_data)
                   direction == Direction(Unwrap(info).is_response, parsed_request,
                                          parsed_response)
               IN \E found \in Attributions(data, ip_cache) :
                  \E container_name \in NamesFor(found.result),
                     insert_ok \in InsertOutcomes(db_configured) :
                     /\ ip_cache' = found.cache
                     /\ LET container_id == IF IsSome(found.result)
                                            THEN Unwrap(found.result) ELSE Unknown
                        IN IF direction = "response"
                           THEN /\ handle_http_response(connection_id, container_id, container_name,
                                                        Unwrap(parsed_response).status, insert_ok)
                                /\ ops' = ops + 1
                                /\ UNCHANGED <<clock, ticks, db_configured>>
                           ELSE IF direction = "request"
                           THEN /\ handle_http_request(connection_id, container_id, container_name,
                                                       Unwrap(parsed_request).method,
                                                       Unwrap(parsed_request).path)
                                /\ ops' = ops + 1
                                /\ UNCHANGED <<clock, ticks, db_configured>>
                           ELSE CorrelatorUntouched
    /\ UNCHANGED <<monitor_calls, monitor_result, wire, decode_vars, service_vars>>

NextCapture ==
    \/ StartMonitoring
    \/ \E t \in 1..Len(tasks) : OpenCapture(t)
    \/ Arrive
    \/ \E t \in 1..Len(tasks) : CaptureStep(t)

SpecCapture == InitCapture /\ [][NextCapture]_vars

----------------------------------------------------------------------------
(* Restart specification: the capture specification with start_monitoring  *)
(* called again on the same service                                        *)

MaxRestartCalls == 2

StartMonitoringAgain == StartMonitoringUpTo(MaxRestartCalls)

NextRestart ==
    \/ StartMonitoringAgain
    \/ \E t \in 1..Len(tasks) : OpenCapture(t)
    \/ Arrive
    \/ \E t \in 1..Len(tasks) : CaptureStep(t)

SpecRestart == InitCapture /\ [][NextRestart]_vars

(* Per-interface specification: start_monitoring as built for macOS and     *)
(* Windows, where it spawns one capture task for each Docker interface it   *)
(* discovers; frames appear on one interface at a time                      *)

\* Ethernet-framed segments seen on a bridge: a request and a response in
\* each direction of one connection
BridgeFrames ==
    {MkFrame("ethernet", 6, IpA, 51000, IpB, 8080, 5, PayloadGetHealth),
     MkFrame("ethernet", 6, IpB, 8080, IpA, 51000, 5, PayloadOk),
     MkFrame("ethernet", 6, IpB, 8080, IpA, 51000, 5, PayloadGetHealth),
     MkFrame("ethernet", 6, IpA, 51000, IpB, 8080, 5, PayloadOk)}

\* the binaries call start_monitoring once, at startup
StartMonitoringEach ==
    /\ monitor_calls = 0
    /\ monitor_calls' = 1
    /\ monitor_result' = "ok"
    /\ tasks' = SpawnEach(tasks, BridgeInterfaces)
    /\ CorrelatorUntouched
    /\ UNCHANGED <<ip_cache, wire, decode_vars, service_vars>>

\* a frame appears on one interface: the open capture on it will read it
ArriveOn ==
    /\ Len(wire) < MaxFrames
    /\ \E f \in BridgeFrames, i \in 1..Len(BridgeInterfaces) :
           /\ wire' = Append(wire, f)
           /\ tasks' = [t \in 1..Len(tasks) |->
                           IF /\ tasks[t].state = "capturing"
                              /\ tasks[t].interface = BridgeInterfaces[i]
                           THEN [tasks[t] EXCEPT !.inbox = Append(@, f)]
                           ELSE tasks[t]]
    /\ CorrelatorUntouched
    /\ UNCHANGED <<ip_cache, monitor_calls, monitor_result, decode_vars, service_vars>>

NextEach ==
    \/ StartMonitoringEach
    \/ \E t \in 1..Len(tasks) : OpenCapture(t)
    \/ ArriveOn
    \/ \E t \in 1..Len(tasks) : CaptureStep(t)

SpecEach == InitCapture /\ [][NextEach]_vars

----------------------------------------------------------------------------
(* Attribution specification: find_container_for_packet called packet by   *)
(* packet while containers start and stop                                  *)

MaxLookups == 3

\* an address no container has
IpC == <<10, 0, 0, 9>>

\* what list_containers can return from one call to the next
Listings ==
    {<<>>,
     <<DockerContainers[1]>>,
     DockerContainers,
     <<DockerContainers[2], DockerContainers[1]>>}

\* packets to attribute: between the two containers, from outside to the
\* second container, and between two outside hosts
LookupFrames ==
    {MkFrame("sll", 6, IpA, 51000, IpB, 8080, 5, PayloadGetHealth),
     MkFrame("sll", 6, IpC, 51000, IpB, 8080, 5, PayloadGetHealth),
     MkFrame("sll", 6, IpC, 51000, IpC, 8080, 5, PayloadGetHealth)}

InitAttribution ==
    /\ DecodeIdle
    /\ CorrelatorIdle
    /\ CaptureIdle
    /\ ServiceIdle

\* one call of find_container_for_packet
Lookup ==
    /\ ops < MaxLookups
    /\ \E data \in LookupFrames, containers \in Listings, list_outcome \in ListOutcomes,
          inspect_failed \in SUBSET ContainerIds :
          \E found \in FindContainerAmong(data, ip_cache, containers, list_outcome,
                                          inspect_failed) :
             /\ ip_cache' = found.cache
             /\ lookup' = [op |-> "find_container_for_packet",
                           data |-> data,
                           cache_hit |-> CacheHits(ip_cache,
                                             IpAt(data, LinkOffsets(data).src_ip_offset),
                                             IpAt(data, LinkOffsets(data).dst_ip_offset)) # {},
                           containers |-> containers,
                           list_outcome |-> list_outcome,
                           inspect_failed |-> inspect_failed,
                           result |-> found.result]
    /\ ops' = ops + 1
    /\ UNCHANGED <<clock, ticks, db_configured, db_rows, pending_requests,
                   captured_requests, last_op, open_req, swept_keys, decode_vars,
                   tasks, monitor_calls, monitor_result, wire, capture_feature, api_reply,
                   task_pc, locks, worker>>

NextAttribution == Lookup

SpecAttribution == InitAttribution /\ [][NextAttribution]_vars

(* Stable-runtime specification: find_container_for_packet called packet   *)
(* by packet while the runtime's answers never change: list_containers       *)
(* returns DockerContainers and every inspection succeeds.  The cache is a   *)
(* std HashMap with a per-process random hasher: the order in which it       *)
(* iterates its keys is one of the orders below, the same for every call.    *)

\* the orders in which the cache can iterate over the container ids
HashOrders == {<<CidWeb, CidApi>>, <<CidApi, CidWeb>>}

\* packets to attribute: both directions of a connection between the two
\* containers, and packets between a container and an outside host
StableFrames ==
    {MkFrame("sll", 6, IpA, 51000, IpB, 8080, 5, PayloadGetHealth),
     MkFrame("sll", 6, IpB, 8080, IpA, 51000, 5, PayloadOk),
     MkFrame("sll", 6, IpC, 51000, IpB, 8080, 5, PayloadGetHealth),
     MkFrame("sll", 6, IpA, 51000, IpC, 8080, 5, PayloadGetHealth)}

\* the first id of the iteration order that is among the hits
FirstIterated(order, hits) ==
    order[CHOOSE i \in 1..Len(order) :
              order[i] \in hits /\ \A j \in 1..(i - 1) : order[j] \notin hits]

\* find_container_for_packet with the cache iterated in the given order
FindContainerIterating(data, cache, order) ==
    LET src_ip == IpAt(data, LinkOffsets(data).src_ip_offset)
        dst_ip == IpAt(data, LinkOffsets(data).dst_ip_offset)
    IN {found \in FindContainerForPacket(data, cache, "ok", {}) :
           CacheHits(cache, src_ip, dst_ip) # {}
               => found.result = Some(FirstIterated(order, CacheHits(cache, src_ip, dst_ip)))}

\* nothing looked up yet.  iteration is the cache's iteration order; answers
\* is history: per packet, the results returned for it so far
InitStable ==
    /\ DecodeIdle
    /\ CorrelatorIdle
    /\ CaptureIdle
    /\ capture_feature = TRUE
    /\ api_reply = NoReply
    /\ lookup \in {[op |-> "none", iteration |-> order,
                    answers |-> [data \in StableFrames |-> {}]] : order \in HashOrders}
    /\ task_pc = <<>>
    /\ locks = NoLocks
    /\ worker = NoWorker

\* one call of find_container_for_packet
LookupStable ==
    /\ ops < MaxLookups
    /\ \E data \in StableFrames :
          \E found \in FindContainerIterating(data, ip_cache, lookup.iteration) :
             /\ ip_cache' = found.cache
             /\ lookup' = [op |-> "find_container_for_packet",
                           data |-> data,
                           cache_hit |-> CacheHits(ip_cache,
                                             IpAt(data, LinkOffsets(data).src_ip_offset),
                                             IpAt(data, LinkOffsets(data).dst_ip_offset)) # {},
                           result |-> found.result,
                           iteration |-> lookup.iteration,
                           answers |-> [lookup.answers EXCEPT ![data] = @ \cup {found.result}]]
    /\ ops' = ops + 1
    /\ UNCHANGED <<clock, ticks, db_configured, db_rows, pending_requests,
                   captured_requests, last_op, open_req, swept_keys, decode_vars,
                   tasks, monitor_calls, monitor_result, wire, capture_feature, api_reply,
                   task_pc, locks, worker>>

NextStable == LookupStable

SpecStable == InitStable /\ [][NextStable]_vars

----------------------------------------------------------------------------
(* Lock specification: capture tasks running one loop iteration each, cut  *)
(* at the points where the code awaits: a lock, a runtime-API call, the    *)
(* durable insert.  Between two awaits a task runs without interruption.   *)

MaxPackets == 3

\* one capture task per interface start_monitoring captures on
LockTasks == 1..Len(BridgeInterfaces)

\* the packets the tasks read: a request and its response
LockFrames ==
    {MkFrame("sll", 6, IpA, 51000, IpB, 8080, 5, PayloadGetHealth),
     MkFrame("sll", 6, IpB, 8080, IpA, 51000, 5, PayloadOk)}

\* a task at cap.next_packet(), holding nothing.  listings and listed are
\* history: the number of list_containers calls find_container_for_packet has
\* made for the packet in hand and the outcome of the last one; prior is the
\* outcome for the packet handled before
AtNextPacket ==
    [pc |-> "next_packet", data |-> <<>>, remaining |-> <<>>,
     container |-> None, name |-> Unknown,
     listings |-> 0, listed |-> "none", prior |-> "none"]

\* back at the loop head after the packet in hand
LoopAgain(local) == [AtNextPacket EXCEPT !.prior = local.listed]

HttpDataOf(data) == Unwrap(ExtractConnectionInfo(data)).http_data

AfterAttributionRetrying(local, container_match) ==
    IF /\ ~IsSome(ParseHttpResponse(HttpDataOf(local.data)))
       /\ ~IsSome(ParseHttpRequest(HttpDataOf(local.data)))
    THEN LoopAgain(local)
    ELSE [local EXCEPT !.pc = IF IsSome(container_match) THEN "name_wait"
                                                          ELSE "list_wait",
                       !.container = container_match,
                       !.remaining = <<>>]

\* where a task goes once find_container_for_packet has returned: to the name
\* lookup when a container was found, to the handler otherwise, back to the
\* loop head when the payload is neither a request nor a response
AfterAttribution(local, container_match) ==
    IF /\ ~IsSome(ParseHttpResponse(HttpDataOf(local.data)))
       /\ ~IsSome(ParseHttpRequest(HttpDataOf(local.data)))
    THEN LoopAgain(local)
    ELSE [local EXCEPT !.pc = IF IsSome(container_match) THEN "name_wait"
                                                          ELSE "handler_lock",
                       !.container = container_match,
                       !.remaining = <<>>]

InitLocks ==
    /\ DecodeIdle
    /\ clock = 0
    /\ ticks = 0
    /\ ops = 0
    /\ db_configured \in BOOLEAN
    /\ db_rows = <<>>
    /\ pending_requests = EmptyMap
    /\ captured_requests = EmptyMap
    /\ last_op = NoOp
    /\ open_req = [k \in Keys |-> <<>>]
    /\ swept_keys = {}
    /\ CaptureIdle
    /\ capture_feature = TRUE
    /\ api_reply = NoReply
    /\ lookup = NoLookup
    /\ task_pc = [t \in LockTasks |-> AtNextPacket]
    /\ locks = NoLocks
    /\ worker = NoWorker

\* what no step of a capture task changes
OutsideTasks ==
    UNCHANGED <<decode_vars, clock, ticks, db_configured, tasks, monitor_calls,
                monitor_result, wire, capture_feature, api_reply, lookup, worker>>

HandlersNotCalled ==
    UNCHANGED <<db_rows, pending_requests, captured_requests, last_op, open_req,
                swept_keys>>

\* cap.next_packet() returns a packet; extract_connection_info and the two
\* parsers run; find_container_for_packet starts
ReadPacket(t) ==
    /\ task_pc[t].pc = "next_packet"
    /\ ops < MaxPackets
    /\ \E data \in LockFrames :
           task_pc' = [task_pc EXCEPT ![t] =
                          IF IsSome(ExtractConnectionInfo(data))
                          THEN [task_pc[t] EXCEPT !.pc = "cache_read", !.data = data]
                          ELSE task_pc[t]]
    /\ ops' = ops + 1
    /\ UNCHANGED <<ip_cache, locks>>
    /\ HandlersNotCalled
    /\ OutsideTasks

\* cache.read().await and the scan of the cache; the guard is dropped before
\* anything is awaited
CacheRead(t) ==
    /\ task_pc[t].pc = "cache_read"
    /\ locks.cache = None
    /\ LET o == LinkOffsets(task_pc[t].data)
           hits == CacheHits(ip_cache, IpAt(task_pc[t].data, o.src_ip_offset),
                             IpAt(task_pc[t].data, o.dst_ip_offset))
       IN IF hits # {}
          THEN \E container_id \in hits :
                  task_pc' = [task_pc EXCEPT ![t] =
                                 AfterAttribution(task_pc[t], Some(container_id))]
          ELSE task_pc' = [task_pc EXCEPT ![t].pc = "list_wait"]
    /\ UNCHANGED <<ops, ip_cache, locks>>
    /\ HandlersNotCalled
    /\ OutsideTasks

\* the list_containers call of find_container_for_packet returns
ListDone(t) ==
    /\ task_pc[t].pc = "list_wait"
    /\ \E list_outcome \in ListOutcomes :
          LET local == [task_pc[t] EXCEPT !.listings = @ + 1, !.listed = list_outcome]
          IN task_pc' = [task_pc EXCEPT ![t] =
                            IF list_outcome = "ok" /\ DockerContainers # <<>>
                            THEN [local EXCEPT !.pc = "cache_write_wait",
                                               !.remaining = DockerContainers]
                            ELSE AfterAttribution(local, None)]
    /\ UNCHANGED <<ops, ip_cache, locks>>
    /\ HandlersNotCalled
    /\ OutsideTasks

\* cache.write().await, then cache_write.clear(); the guard lives until
\* find_container_for_packet returns
CacheWriteAcquire(t) ==
    /\ task_pc[t].pc = "cache_write_wait"
    /\ locks.cache = None
    /\ locks' = [locks EXCEPT !.cache = Some(t)]
    /\ ip_cache' = EmptyMap
    /\ task_pc' = [task_pc EXCEPT ![t].pc = "inspect_wait"]
    /\ UNCHANGED ops
    /\ HandlersNotCalled
    /\ OutsideTasks

\* get_container_network_info for the next listed container returns: insert
\* into the cache, return on a match, go on to the next container otherwise
InspectDone(t) ==
    /\ task_pc[t].pc = "inspect_wait"
    /\ \E inspected \in BOOLEAN :
          LET container == Head(task_pc[t].remaining)
              o == LinkOffsets(task_pc[t].data)
              matched == /\ inspected
                         /\ \/ IpAt(task_pc[t].data, o.src_ip_offset) \in container.ips
                            \/ IpAt(task_pc[t].data, o.dst_ip_offset) \in container.ips
              last == Tail(task_pc[t].remaining) = <<>>
          IN /\ ip_cache' = IF inspected
                            THEN MapInsert(ip_cache, container.id, container.ips)
                            ELSE ip_cache
             /\ locks' = IF matched \/ last THEN [locks EXCEPT !.cache = None] ELSE locks
             /\ task_pc' = [task_pc EXCEPT ![t] =
                               IF matched THEN AfterAttribution(task_pc[t], Some(container.id))
                               ELSE IF last THEN AfterAttribution(task_pc[t], None)
                               ELSE [task_pc[t] EXCEPT !.remaining = Tail(@)]]
    /\ UNCHANGED ops
    /\ HandlersNotCalled
    /\ OutsideTasks

\* the list_containers call of the name lookup returns
NameDone(t) ==
    /\ task_pc[t].pc = "name_wait"
    /\ \E container_name \in NamesFor(task_pc[t].container) :
           task_pc' = [task_pc EXCEPT ![t].pc = "handler_lock", ![t].name = container_name]
    /\ UNCHANGED <<ops, ip_cache, locks>>
    /\ HandlersNotCalled
    /\ OutsideTasks

ContainerIdOf(local) == IF IsSome(local.container) THEN Unwrap(local.container) ELSE Unknown

ConnectionIdOf(local) == Unwrap(ExtractConnectionInfo(local.data)).connection_id

IsResponse(local) == IsSome(ParseHttpResponse(HttpDataOf(local.data)))

\* the response matches a pending request and its record goes to the
\* database: insert_http_request_to_db is awaited under the pending guard
AwaitsInsert(local) ==
    /\ IsResponse(local)
    /\ IsSome(TakePending(pending_requests, ConnectionIdOf(local)))
    /\ SinkChoice(BuildRecord(Unwrap(TakePending(pending_requests, ConnectionIdOf(local))),
                              ContainerIdOf(local), local.name,
                              Unwrap(ParseHttpResponse(HttpDataOf(local.data))).status,
                              clock),
                  db_configured, TRUE) = "db"

\* pending_requests.write().await in either handler.  A request, and a
\* response that awaits no insert, run to the end of the handler; a response
\* whose record goes to the database keeps the guard and awaits the insert.
HandlerLock(t) ==
    /\ task_pc[t].pc = "handler_lock"
    /\ locks.pending = None
    /\ LET local == task_pc[t] IN
       IF AwaitsInsert(local)
       THEN /\ locks' = [locks EXCEPT !.pending = Some(t)]
            /\ task_pc' = [task_pc EXCEPT ![t].pc = "db_insert_wait"]
            /\ HandlersNotCalled
       ELSE /\ IF IsResponse(local)
               THEN handle_http_response(ConnectionIdOf(local), ContainerIdOf(local),
                        local.name,
                        Unwrap(ParseHttpResponse(HttpDataOf(local.data))).status, TRUE)
               ELSE handle_http_request(ConnectionIdOf(local), ContainerIdOf(local),
                        local.name,
                        Unwrap(ParseHttpRequest(HttpDataOf(local.data))).method,
                        Unwrap(ParseHttpRequest(HttpDataOf(local.data))).path)
            /\ task_pc' = [task_pc EXCEPT ![t] = LoopAgain(task_pc[t])]
            /\ UNCHANGED locks
    /\ UNCHANGED <<ops, ip_cache>>
    /\ OutsideTasks

\* insert_http_request_to_db returns (on Err the record goes to the buffer);
\* the handler ends and the pending guard is dropped
InsertDone(t) ==
    /\ task_pc[t].pc = "db_insert_wait"
    /\ \E insert_ok \in BOOLEAN :
           handle_http_response(ConnectionIdOf(task_pc[t]), ContainerIdOf(task_pc[t]),
               task_pc[t].name,
               Unwrap(ParseHttpResponse(HttpDataOf(task_pc[t].data))).status, insert_ok)
    /\ locks' = [locks EXCEPT !.pending = None]
    /\ task_pc' = [task_pc EXCEPT ![t] = LoopAgain(task_pc[t])]
    /\ UNCHANGED <<ops, ip_cache>>
    /\ OutsideTasks

NextLocks ==
    \E t \in LockTasks :
        \/ ReadPacket(t)
        \/ CacheRead(t)
        \/ ListDone(t)
        \/ CacheWriteAcquire(t)
        \/ InspectDone(t)
        \/ NameDone(t)
        \/ HandlerLock(t)
        \/ InsertDone(t)

SpecLocks == InitLocks /\ [][NextLocks]_vars

----------------------------------------------------------------------------
(* Vocabulary of the correlator claims                                     *)

ExpiryMs == PendingExpirySecs * MsPerSec

BufferOf(buffers, c) == IF c \in DOMAIN buffers THEN buffers[c] ELSE <<>>

\* every record held by the sink, with its place
StoredRecords ==
    {<<"db", i, db_rows[i]>> : i \in 1..Len(db_rows)}
        \cup UNION {{<<c, i, captured_requests[c][i]>> : i \in 1..Len(captured_requests[c])} :
                       c \in DOMAIN captured_requests}

\* the records a step adds to the sink, with their place
Produced ==
    {<<"db", i, db_rows'[i]>> : i \in (Len(db_rows) + 1)..Len(db_rows')}
        \cup UNION {{<<c, i, captured_requests'[c][i]>> :
                         i \in (Len(BufferOf(captured_requests, c)) + 1)..Len(captured_requests'[c])} :
                       c \in DOMAIN captured_requests'}

SinkUnchanged == db_rows' = db_rows /\ captured_requests' = captured_requests

\* the step is a call of handle_http_request / handle_http_response on k
RequestStep(k) == ops' = ops + 1 /\ last_op'.op = "request" /\ last_op'.key = Some(k)
ResponseStep(k) == ops' = ops + 1 /\ last_op'.op = "response" /\ last_op'.key = Some(k)

LatestRequest(k) == open_req[k][Len(open_req[k])]

\* the latest step was a response that stored a record
Emitted(op) == op.op = "response" /\ op.log \in {"db", "buffer"}

----------------------------------------------------------------------------
(* Claims about the correlator                                             *)

\* C2 (as stated): a response handled on k at t1, with t0 <= t1 <= t0 + 30s
\* for the latest request on k (handled at t0, no other request on k since)
\* and a concrete container id on at least one side, produces exactly one
\* record, whatever was handled on other keys in between, and the record's
\* response_time_ms is t1 - t0.
C2_MatchWithinWindow ==
    [][\A k \in Keys :
          (/\ ResponseStep(k)
           /\ open_req[k] # <<>>
           /\ LatestRequest(k).request_timestamp <= clock
           /\ clock <= LatestRequest(k).request_timestamp + ExpiryMs
           /\ (LatestRequest(k).container_id # Unknown \/ last_op'.container_id # Unknown))
          => /\ Cardinality(Produced) = 1
             /\ \A p \in Produced :
                   p[3].response_time_ms = clock - LatestRequest(k).request_timestamp]_vars

C4_TimestampIsRequestTime ==
    [][\A k \in Keys :
          (ResponseStep(k) /\ k \in DOMAIN pending_requests)
          => \A p \in Produced :
                p[3].timestamp = pending_requests[k].request_timestamp]_vars

C4_Witness ==
    /\ Emitted(last_op)
    /\ last_op.answered # <<>>
    /\ \E p \in StoredRecords :
           /\ p[3].timestamp = last_op.answered[Len(last_op.answered)].request_timestamp
           /\ p[3].timestamp < last_op.at
           /\ p[3].response_time_ms = last_op.at - p[3].timestamp

\* C5: a second request on k before any response replaces the first: a later
\* response on k produces a record with the method, path and timestamp of the
\* latest request on k only; an earlier request never appears in a record.
C5_SecondRequestReplacesFirst ==
    [][\A k \in Keys :
          (ResponseStep(k) /\ Len(open_req[k]) >= 2)
          => \A p \in Produced :
                /\ p[3].method = LatestRequest(k).method
                /\ p[3].endpoint = LatestRequest(k).endpoint
                /\ p[3].timestamp = LatestRequest(k).request_timestamp]_vars

C5_Witness ==
    /\ Emitted(last_op)
    /\ Len(last_op.answered) >= 2
    /\ LET first == last_op.answered[1]
           second == last_op.answered[Len(last_op.answered)]
       IN /\ first.method # second.method
          /\ first.request_timestamp # second.request_timestamp
          /\ \E p \in StoredRecords :
                 /\ p[3].method = second.method
                 /\ p[3].timestamp = second.request_timestamp

\* C6: a response handled on k after the pending entry for k was removed by
\* an expiry sweep produces no record and stores nothing, in the buffer or in
\* the durable store.
C6_ResponseAfterSweepStoresNothing ==
    [][\A k \in Keys :
          (ResponseStep(k) /\ k \in swept_keys) => SinkUnchanged]_vars

C6_Witness ==
    /\ last_op.op = "response"
    /\ last_op.key \subseteq swept_keys
    /\ last_op.key # None
    /\ last_op.container_id # Unknown
    /\ StoredRecords = {}

\* C7: no record with container_id "unknown" is ever stored, in a buffer or
\* in the durable store; a match whose request side and response side are
\* both "unknown" is discarded without a record.
C7_NoUnknownStored ==
    /\ [](\A p \in StoredRecords : p[3].container_id # Unknown /\ p[1] # Unknown)
    /\ [][\A k \in Keys :
             (/\ ResponseStep(k)
              /\ k \in DOMAIN pending_requests
              /\ pending_requests[k].container_id = Unknown
              /\ last_op'.container_id = Unknown)
             => SinkUnchanged]_vars

C7_Witness ==
    /\ last_op.op = "response"
    /\ last_op.log = "skip"
    /\ last_op.container_id = Unknown
    /\ last_op.answered # <<>>

\* C10 (as stated): when a durable store handle is configured, a matched
\* record is never appended to the in-memory buffer: the buffer is written
\* only when no durable handle is configured.
C10_BufferOnlyWithoutDb ==
    db_configured => \A c \in DOMAIN captured_requests : captured_requests[c] = <<>>

\* C10 (amended): when a durable store handle is configured and the insert
\* succeeds, the matched record is inserted into the durable store and is not
\* appended to the in-memory buffer; the buffer is written only when no
\* durable handle is configured or the insert failed.
C10_BufferOnlyWithoutDbOrOnFailure ==
    [][\A k \in Keys :
          ResponseStep(k)
          => /\ (db_configured /\ last_op'.insert_ok)
                  => /\ captured_requests' = captured_requests
                     /\ \A p \in Produced : p[1] = "db"
             /\ captured_requests' # captured_requests
                  => (~db_configured \/ ~last_op'.insert_ok)]_vars

C10_Witness ==
    /\ db_configured
    /\ Emitted(last_op)
    /\ last_op.insert_ok
    /\ db_rows # <<>>
    /\ captured_requests = EmptyMap

\* C34: every emitted record with a concrete container id ends up in exactly
\* one place: the durable store when the insert succeeds, the in-memory
\* buffer of its container when no durable handle is configured or the
\* insert fails; never both and never neither.
C34_RecordInExactlyOnePlace ==
    [][\A k \in Keys, id \in MixedIdentities, st \in StatusCodes, insert_ok \in BOOLEAN :
          (/\ ops' = ops + 1
           /\ k \in DOMAIN pending_requests
           /\ handle_http_response(k, id[1], id[2], st, insert_ok))
          => LET request == BuildRecord(pending_requests[k], id[1], id[2], st, clock)
                 c == request.container_id
             IN c # Unknown =>
                  /\ Cardinality(Produced) = 1
                  /\ \A p \in Produced : p[3] = request
                  /\ (db_configured /\ insert_ok)
                        => /\ db_rows' = Append(db_rows, request)
                           /\ captured_requests' = captured_requests
                  /\ ~(db_configured /\ insert_ok)
                        => /\ db_rows' = db_rows
                           /\ captured_requests'[c] = Append(BufferOf(captured_requests, c), request)
                           /\ \A d \in DOMAIN captured_requests' \ {c} :
                                  /\ d \in DOMAIN captured_requests
                                  /\ captured_requests'[d] = captured_requests[d]]_vars

\* with a durable handle configured the insert of a matched record failed:
\* the record is in the buffer of its container and not in the store
C34_Witness ==
    /\ db_configured
    /\ Emitted(last_op)
    /\ ~last_op.insert_ok
    /\ db_rows = <<>>
    /\ \E c \in ContainerIds :
          /\ DOMAIN captured_requests = {c}
          /\ Len(captured_requests[c]) = 1
          /\ captured_requests[c][1].container_id = c

\* the entries of a pending table whose age at time now is at most 30 seconds
AgedAtMostExpiry(m, now) ==
    [j \in {j \in DOMAIN m : now - m[j].request_timestamp <= ExpiryMs} |-> m[j]]

\* C17 (as stated): handle_http_request sweeps then inserts as one step:
\* afterwards the table is exactly the earlier entries whose age is at most
\* 30 seconds (an entry aged exactly 30 seconds is kept), with the entry for
\* the request's key replaced by the new request stamped at the current time.
C17_SweepKeepsAgeAtMostExpiry ==
    [][\A k \in Keys :
          RequestStep(k) =>
              /\ k \in DOMAIN pending_requests'
              /\ pending_requests'[k].request_timestamp = clock
              /\ pending_requests' =
                     MapInsert(AgedAtMostExpiry(pending_requests, clock), k,
                               pending_requests'[k])]_vars

\* C16: every emitted record has response_time_ms >= 0, also when the
\* response is handled at a clock value earlier than the request's timestamp
\* (then it is 0).
C16_LatencyNeverNegative ==
    [][\A r \in Produced :
          /\ r[3].response_time_ms >= 0
          /\ r[3].response_time_ms = IF clock > r[3].timestamp
                                     THEN clock - r[3].timestamp ELSE 0]_vars

\* the one record emitted so far comes from a response handled at a clock
\* value earlier than its request's timestamp
C16_Witness ==
    /\ Emitted(last_op)
    /\ Cardinality(StoredRecords) = 1
    /\ \E r \in StoredRecords : r[3].timestamp > last_op.at /\ r[3].response_time_ms = 0

\* C21: when the pending entry for k has container id "unknown" and the
\* response supplies a concrete id, the emitted record carries the response's
\* container id and name; when the pending entry has a concrete id, the
\* record carries the pending entry's id whatever id the response supplies.
C21_ResponseHealsUnknownRequest ==
    [][\A k \in Keys, id \in MixedIdentities, st \in StatusCodes, insert_ok \in BOOLEAN :
          (/\ k \in DOMAIN pending_requests
           /\ handle_http_response(k, id[1], id[2], st, insert_ok))
          => /\ (pending_requests[k].container_id = Unknown /\ id[1] # Unknown)
                  => /\ Produced # {}
                     /\ \A p \in Produced : /\ p[3].container_id = id[1]
                                            /\ p[3].container_name = id[2]
             /\ pending_requests[k].container_id # Unknown
                  => /\ Produced # {}
                     /\ \A p \in Produced :
                            p[3].container_id = pending_requests[k].container_id]_vars

\* a request stored with "unknown" was answered by a response attributed to a
\* container, and the one record emitted carries that container's id
C21_Witness ==
    /\ Emitted(last_op)
    /\ last_op.answered # <<>>
    /\ last_op.answered[Len(last_op.answered)].container_id = Unknown
    /\ last_op.container_id = CidApi
    /\ Cardinality(StoredRecords) = 1
    /\ \A p \in StoredRecords : p[3].container_id = CidApi

\* C22: after handle_http_response on k the pending table has no entry for
\* k, whether or not a record was emitted (also when the match is discarded
\* as "unknown" or the durable insert fails); the entries of the other keys
\* are unchanged.
C22_ResponseRemovesEntry ==
    [][\A k \in Keys :
          ResponseStep(k)
          => /\ k \notin DOMAIN pending_requests'
             /\ \A j \in Keys \ {k} :
                    MapGet(pending_requests', j) = MapGet(pending_requests, j)]_vars

\* a response matched a pending request, the match was discarded as
\* "unknown", the entry is gone and the entry of the other key is still there
C22_Witness ==
    /\ last_op.op = "response"
    /\ last_op.log = "skip"
    /\ last_op.answered # <<>>
    /\ last_op.key \cap DOMAIN pending_requests = {}
    /\ pending_requests # EmptyMap

\* C23: a response on a key with no pending entry changes nothing: the
\* pending table, every per-container buffer and the durable store are the
\* same after handle_http_response as before.
C23_UnmatchedResponseChangesNothing ==
    [][\A k \in Keys :
          (ResponseStep(k) /\ k \notin DOMAIN pending_requests)
          => /\ pending_requests' = pending_requests
             /\ SinkUnchanged]_vars

\* a response attributed to a container came on a key that never had a
\* request, while a request on the other key was pending
C23_Witness ==
    /\ last_op.op = "response"
    /\ last_op.log = "no_pending"
    /\ last_op.answered = <<>>
    /\ last_op.container_id # Unknown
    /\ pending_requests # EmptyMap
    /\ \A k \in DOMAIN pending_requests : pending_requests[k].container_id # Unknown
    /\ StoredRecords = {}

\* C13 (as stated): handling a matched pair never aborts the capture task:
\* for every concrete container id, ids shorter than 12 characters such as
\* "web-1" included, handle_http_request, handle_http_response and
\* store_request complete normally, and a response that matches a pending
\* request stores the record.
C13_ShortIdsHandled ==
    [][/\ last_op'.log # "panic"
       /\ \A k \in Keys :
              (/\ ResponseStep(k)
               /\ k \in DOMAIN pending_requests
               /\ \/ pending_requests[k].container_id # Unknown
                  \/ last_op'.container_id # Unknown)
              => Produced # {}]_vars

----------------------------------------------------------------------------
(* Claims about the result sink                                            *)

MinOf(a, b) == IF a < b THEN a ELSE b

\* C8: each container's in-memory buffer has at most 1000 records; once
\* full, store_request drops exactly the oldest record and keeps the rest in
\* insertion order: after n stores the buffer is the last min(n, 1000)
\* records, in order.
C8_BufferKeepsLastThousand ==
    /\ \A c \in DOMAIN captured_requests : Len(captured_requests[c]) <= MaxStoredPerContainer
    /\ last_op.op = "store" =>
          LET buf == BufferOf(captured_requests, CidWeb) IN
          /\ Len(buf) = MinOf(ops, MaxStoredPerContainer)
          /\ \A i \in 1..Len(buf) :
                buf[i] = SequentialRecord(CidWeb, ops - Len(buf) + i)

C8_Witness ==
    /\ last_op.op = "store"
    /\ ops = MaxStoredPerContainer + 5
    /\ Len(captured_requests[CidWeb]) = MaxStoredPerContainer
    /\ captured_requests[CidWeb][1].timestamp = 6
    /\ captured_requests[CidWeb][MaxStoredPerContainer].timestamp = MaxStoredPerContainer + 5
----------------------------------------------------------------------------
(* Claims about the capture orchestrator                                   *)

TasksOn(interface) == {t \in 1..Len(tasks) : tasks[t].interface = interface}

\* the response frames that appeared on the interface
WireResponses ==
    {i \in 1..Len(wire) :
        /\ IsSome(ExtractConnectionInfo(wire[i]))
        /\ IsSome(ParseHttpResponse(Unwrap(ExtractConnectionInfo(wire[i])).http_data))}

\* the IP protocol field of a frame, at the offset its link framing gives
FrameProtocol(data) == At(data, LinkOffsets(data).ip_protocol_offset)

\* task t reads the next frame of its capture in this step
ReadsFrame(t) ==
    /\ tasks[t].state = "capturing"
    /\ tasks[t].inbox # <<>>
    /\ Len(tasks') = Len(tasks)
    /\ tasks'[t].packet_count = tasks[t].packet_count + 1

\* C14: a frame whose IP protocol field is not 6 yields no connection key
\* (extract_connection_info returns none), and the capture step that reads
\* it changes neither the pending table nor the result sink.
C14_NonTcpNeverCorrelated ==
    [][\A t \in 1..Len(tasks) :
          (ReadsFrame(t) /\ FrameProtocol(Head(tasks[t].inbox)) # 6) =>
              /\ ExtractConnectionInfo(Head(tasks[t].inbox)) = None
              /\ pending_requests' = pending_requests
              /\ SinkUnchanged]_vars

\* a capture task has read a UDP datagram carrying a well-formed HTTP request
C14_Witness ==
    /\ Len(wire) = 1
    /\ FrameProtocol(wire[1]) = 17
    /\ IsSome(ParseHttpRequest(SliceFrom(wire[1], 56)))
    /\ \E t \in 1..Len(tasks) : tasks[t].packet_count = 1 /\ tasks[t].inbox = <<>>
    /\ pending_requests = EmptyMap

FullyRebuilt(containers, inspect_failed) ==
    [container_id \in {containers[i].id : i \in 1..Len(containers)} \ inspect_failed |->
        (CHOOSE c \in {containers[i] : i \in 1..Len(containers)} : c.id = container_id).ips]

\* C18 (as stated): after a cache miss followed by a successful runtime
\* enumeration, the attribution cache holds exactly the just-fetched data:
\* one entry for every listed container whose inspection succeeded, with its
\* full address set, and nothing from before the refresh; wherever in the
\* list the matching container is, when none matches, and when the list is
\* empty.
C18_CacheFullyRebuilt ==
    (/\ lookup.op = "find_container_for_packet"
     /\ ~lookup.cache_hit
     /\ lookup.list_outcome = "ok")
    => ip_cache = FullyRebuilt(lookup.containers, lookup.inspect_failed)

\* the step is a call of find_container_for_packet that missed the cache
LookupMissed ==
    /\ ops' = ops + 1
    /\ lookup'.op = "find_container_for_packet"
    /\ ~lookup'.cache_hit

SrcIpOf(data) == IpAt(data, LinkOffsets(data).src_ip_offset)
DstIpOf(data) == IpAt(data, LinkOffsets(data).dst_ip_offset)

\* the listed containers whose inspection succeeded and reported one of the
\* packet's addresses
FetchedMatches(containers, inspect_failed, data) ==
    {containers[i].id : i \in {i \in 1..Len(containers) :
        /\ containers[i].id \notin inspect_failed
        /\ (SrcIpOf(data) \in containers[i].ips \/ DstIpOf(data) \in containers[i].ips)}}

\* C24: when the container enumeration fails or exceeds its timeout during
\* attribution, find_container_for_packet returns none and the attribution
\* cache is exactly as it was before the call.
C24_FailedEnumerationLeavesCache ==
    [][(LookupMissed /\ lookup'.list_outcome # "ok")
       => /\ lookup'.result = None
          /\ ip_cache' = ip_cache]_vars

\* the enumeration timed out on a packet no cached container matched, while
\* the cache held an entry from an earlier refresh, which is still there
C24_Witness ==
    /\ lookup.op = "find_container_for_packet"
    /\ ~lookup.cache_hit
    /\ lookup.list_outcome = "timeout"
    /\ lookup.result = None
    /\ ip_cache # EmptyMap

\* C25: after a cache miss and a successful enumeration,
\* find_container_for_packet returns a container id c if and only if the
\* packet's source or destination address is in the address set it has just
\* fetched for c (the entry of c in the cache it leaves), and none when the
\* address is in no fetched set; the container returned is a listed one whose
\* inspection succeeded, and none is returned only when no such container has
\* the address.
C25_ReturnsMatchOfFetchedSets ==
    [][(LookupMissed /\ lookup'.list_outcome = "ok")
       => /\ lookup'.result = CacheHits(ip_cache', SrcIpOf(lookup'.data), DstIpOf(lookup'.data))
          /\ lookup'.result \subseteq
                 FetchedMatches(lookup'.containers, lookup'.inspect_failed, lookup'.data)
          /\ lookup'.result = None
                 <=> FetchedMatches(lookup'.containers, lookup'.inspect_failed,
                                    lookup'.data) = {}]_vars

\* a packet from an outside host to the second listed container missed the
\* cache; both inspections succeeded and the second container was returned
C25_Witness ==
    /\ lookup.op = "find_container_for_packet"
    /\ ~lookup.cache_hit
    /\ lookup.list_outcome = "ok"
    /\ lookup.inspect_failed = {}
    /\ Len(lookup.containers) = 2
    /\ SrcIpOf(lookup.data) = IpC
    /\ lookup.result = Some(lookup.containers[2].id)
    /\ DOMAIN ip_cache = ContainerIds

\* the points where a task waits for the runtime API
RuntimeWaits == {"list_wait", "inspect_wait", "name_wait"}

HeldBy(t) == {l \in DOMAIN locks : locks[l] = Some(t)}

\* C11 (as stated): the capture loop never waits on a slow sink: while the
\* durable insert of one matched record is in progress, the task that
\* produced it is back at its next packet, and no other task is kept from
\* the pending table by a lock held during the insert.
C11_LoopNeverWaitsOnSink ==
    \A t \in DOMAIN task_pc :
        task_pc[t].pc = "db_insert_wait" =>
            /\ HeldBy(t) = {}
            /\ \A u \in DOMAIN task_pc :
                   task_pc[u].pc = "handler_lock" => locks.pending = None

\* C19 (as stated): no lock on shared state (pending table, attribution
\* cache, result buffers) is held while a runtime-API call is in progress: a
\* task waiting on the runtime API holds none of them, so every other task
\* can still acquire each of them.
C19_NoLockAcrossRuntimeCall ==
    \A t \in DOMAIN task_pc :
        task_pc[t].pc \in RuntimeWaits => HeldBy(t) = {}

\* the outcomes of a failed enumeration
ListFailures == {"error", "timeout"}

\* task t takes a step
Moves(t) == task_pc'[t] # task_pc[t]

\* the packet task t has in hand misses the cache
MissesCache(t) ==
    CacheHits(ip_cache, SrcIpOf(task_pc[t].data), DstIpOf(task_pc[t].data)) = {}

\* C26: a failed or timed-out attribution for one packet is not retried for
\* that packet (find_container_for_packet lists the containers at most once
\* per packet, and after a failed listing the task goes straight to the
\* handler); the packet is handled with identity "unknown" (a request is
\* stored as pending with "unknown", a response is matched with "unknown");
\* and every packet whose addresses are not cached, the next one after a
\* failure included, starts a new enumeration.
C26_FailedAttributionNotRetried ==
    /\ [](\A t \in DOMAIN task_pc : task_pc[t].listings <= 1)
    /\ [][\A t \in DOMAIN task_pc :
             /\ (task_pc[t].pc = "list_wait" /\ Moves(t) /\ task_pc'[t].listed \in ListFailures)
                  => /\ task_pc'[t].pc = "handler_lock"
                     /\ task_pc'[t].container = None
                     /\ task_pc'[t].name = Unknown
             /\ (/\ task_pc[t].pc \in {"handler_lock", "db_insert_wait"}
                 /\ task_pc[t].listed \in ListFailures
                 /\ Moves(t))
                  => \/ task_pc'[t].pc = "db_insert_wait"
                     \/ /\ task_pc'[t].pc = "next_packet"
                        /\ last_op'.key = Some(ConnectionIdOf(task_pc[t]))
                        /\ last_op'.container_id = Unknown
                        /\ last_op'.op = IF IsResponse(task_pc[t]) THEN "response"
                                                                   ELSE "request"
                        /\ ~IsResponse(task_pc[t])
                             => pending_requests'[ConnectionIdOf(task_pc[t])].container_id
                                    = Unknown
             /\ (task_pc[t].pc = "cache_read" /\ MissesCache(t) /\ Moves(t))
                  => task_pc'[t].pc = "list_wait"]_vars

\* the enumeration timed out for a task's previous packet, a request, which
\* was stored as pending with "unknown"; for its next packet, again not in the
\* cache, the task has called list_containers again
C26_Witness ==
    \E t \in DOMAIN task_pc :
        /\ task_pc[t].prior = "timeout"
        /\ task_pc[t].listings = 1
        /\ task_pc[t].listed = "ok"
        /\ \E k \in DOMAIN pending_requests : pending_requests[k].container_id = Unknown
        /\ last_op.container_id = Unknown

\* C27: a failure to find or open one interface ends only that interface's
\* capture task: start_monitoring has returned Ok, the failing step changes
\* no other task, a task that is capturing stays capturing whatever happens
\* to the others (so it handles the packets of its interface), and the failed
\* task never runs again (it stays failed, reads nothing, and no task is
\* spawned in its place).
C27_OpenFailureEndsOnlyThatTask ==
    /\ [](monitor_calls >= 1 => monitor_result = "ok")
    /\ [][\A t \in 1..Len(tasks) :
             /\ (tasks[t].state = "spawned" /\ tasks'[t].state = "failed")
                  => \A u \in 1..Len(tasks) \ {t} : tasks'[u] = tasks[u]
             /\ tasks[t].state = "capturing" => tasks'[t].state = "capturing"
             /\ tasks[t].state = "failed"
                  => /\ tasks'[t] = tasks[t]
                     /\ Len(tasks') = Len(tasks)]_vars

\* the capture on the first bridge failed to open; afterwards the task of
\* the second bridge read a request from its interface and stored it as
\* pending
C27_Witness ==
    /\ monitor_result = "ok"
    /\ Len(tasks) = Len(BridgeInterfaces)
    /\ tasks[1].state = "failed"
    /\ tasks[1].packet_count = 0
    /\ tasks[2].state = "capturing"
    /\ tasks[2].packet_count = 1
    /\ pending_requests # EmptyMap

\* what the micro-parsers return in the model's payloads, and none
ParserResults ==
    {None, ParseHttpRequest(PayloadGetHealth), ParseHttpResponse(PayloadOk)}

\* the identities a capture step can pass to the handlers
CaptureIdentities ==
    {<<Unknown, Unknown>>} \cup
        UNION {{<<c, n>> : n \in NamesFor(Some(c))} : c \in ContainerIds}

\* C28: whether a payload is handled as a request or as a response depends
\* only on the micro-parser's results.  The direction chosen is the same for
\* both values of the port-based is_response hint, and is "response" whenever
\* the payload parses as a response, also when it parses as a request too.
\* The capture step that reads a frame with connection key k changes the
\* pending table and the sink as handle_http_response on k does when the
\* payload parses as a response, as handle_http_request on k does when it
\* parses as a request only, and not at all otherwise: two packets with the
\* same key and payload and different hints get the same handling.
C28_ParserDecidesDirection ==
    /\ [](\A parsed_request \in ParserResults, parsed_response \in ParserResults :
             /\ Direction(TRUE, parsed_request, parsed_response)
                    = Direction(FALSE, parsed_request, parsed_response)
             /\ IsSome(parsed_response)
                    => Direction(TRUE, parsed_request, parsed_response) = "response")
    /\ [][\A t \in 1..Len(tasks) :
             (ReadsFrame(t) /\ IsSome(ExtractConnectionInfo(Head(tasks[t].inbox))))
             => LET info == Unwrap(ExtractConnectionInfo(Head(tasks[t].inbox)))
                    parsed_request == ParseHttpRequest(info.http_data)
                    parsed_response == ParseHttpResponse(info.http_data)
                IN IF IsSome(parsed_response)
                   THEN \E id \in CaptureIdentities, insert_ok \in BOOLEAN :
                           handle_http_response(info.connection_id, id[1], id[2],
                                                Unwrap(parsed_response).status, insert_ok)
                   ELSE IF IsSome(parsed_request)
                   THEN \E id \in CaptureIdentities :
                           handle_http_request(info.connection_id, id[1], id[2],
                                               Unwrap(parsed_request).method,
                                               Unwrap(parsed_request).path)
                   ELSE /\ pending_requests' = pending_requests
                        /\ SinkUnchanged]_vars

\* two frames with the same connection key and the same payload, a request,
\* and different hints were read, and both were handled as requests
C28_Witness ==
    /\ Len(wire) = 2
    /\ LET first == Unwrap(ExtractConnectionInfo(wire[1]))
           second == Unwrap(ExtractConnectionInfo(wire[2]))
       IN /\ first.connection_id = second.connection_id
          /\ first.http_data = second.http_data
          /\ first.is_response # second.is_response
          /\ IsSome(ParseHttpRequest(first.http_data))
          /\ Len(open_req[first.connection_id]) = 2
          /\ first.connection_id \in DOMAIN pending_requests

\* C33: a pending request is matched at most once: for every interleaving of
\* capture tasks that share the pending table, a step that stores a record is
\* a response handled on a key k on which a request was handled since the
\* last response on k, and it stores one record; so two responses on k with
\* no request on k between them produce at most one record.
C33_PendingMatchedAtMostOnce ==
    [][\A k \in Keys :
          (Produced # {} /\ last_op'.key = Some(k))
          => /\ last_op'.op = "response"
             /\ open_req[k] # <<>>
             /\ open_req'[k] = <<>>
             /\ Cardinality(Produced) = 1]_vars

\* a request and two responses were handled on one key by tasks sharing the
\* table: the first response stored a record, the second found nothing
\* pending
C33_Witness ==
    /\ last_op.op = "response"
    /\ last_op.log = "no_pending"
    /\ last_op.answered = <<>>
    /\ Cardinality(StoredRecords) = 1
    /\ pending_requests = EmptyMap
    /\ \A t \in LockTasks : task_pc[t].pc = "next_packet"

\* the container holding address ip, if any
HolderOf(ip) ==
    {DockerContainers[i].id : i \in {i \in 1..Len(DockerContainers) :
                                       ip \in DockerContainers[i].ips}}

\* the packet's source and destination belong to two different containers
BetweenTwoContainers(data) ==
    /\ HolderOf(SrcIpOf(data)) # {}
    /\ HolderOf(DstIpOf(data)) # {}
    /\ HolderOf(SrcIpOf(data)) # HolderOf(DstIpOf(data))

\* C35 (as stated): attribution is deterministic: with the same runtime data,
\* all the calls of find_container_for_packet on one packet between two
\* containers have returned the same container, from the cache or after a
\* refresh.
C35_AttributionDeterministic ==
    lookup.op # "none" =>
        \A data \in StableFrames :
            BetweenTwoContainers(data) => Cardinality(lookup.answers[data]) <= 1

\* C20 (as stated): when capture on the catch-all interface "any" cannot be
\* started (the interface is not found or the open fails), start_monitoring
\* has started a capture task on each bridge-pattern interface it discovers.
C20_FallsBackToBridges ==
    (/\ monitor_calls >= 1
     /\ \A t \in TasksOn(AnyInterface) : tasks[t].state = "failed")
    => \A i \in 1..Len(BridgeInterfaces) : TasksOn(BridgeInterfaces[i]) # {}

\* C9 (as stated): start_monitoring is idempotent: a second call adds no
\* capture task, so there is at most one capture task per interface, and one
\* request/response pair seen on an interface is never recorded twice (there
\* are no more records than response frames seen).
C9_StartMonitoringIdempotent ==
    /\ Cardinality(TasksOn(AnyInterface)) <= 1
    /\ Cardinality(StoredRecords) <= Cardinality(WireResponses)

----------------------------------------------------------------------------
(* Claims about the worker and the buffer operations it uses                *)

\* the collection task's clear_container_requests call returns
ClearStep == worker.collect_pc = "clear" /\ worker'.collect_pc = "get"

\* the collection task's get_container_requests call returns
GetStep ==
    /\ worker.collect_pc = "get"
    /\ worker.containers # <<>>
    /\ IsRunning(Head(worker.containers).status)
    /\ worker'.collect_pc = "clear" \/ worker'.containers # worker.containers

\* C31: clear_container_requests(c) removes only container c's buffered
\* records and leaves every other container's buffer and the pending table
\* unchanged; get_container_requests changes no state and returns an empty
\* list for a container with no buffer.
C31_ClearAndGetTouchOnlyTheirContainer ==
    [][/\ ClearStep =>
            LET c == Head(worker.containers).id IN
            /\ DOMAIN captured_requests' = DOMAIN captured_requests \ {c}
            /\ \A d \in DOMAIN captured_requests' :
                  captured_requests'[d] = captured_requests[d]
            /\ pending_requests' = pending_requests
            /\ db_rows' = db_rows
       /\ GetStep =>
            /\ captured_requests' = captured_requests
            /\ pending_requests' = pending_requests
            /\ db_rows' = db_rows
            /\ Head(worker.containers).id \notin DOMAIN captured_requests
                  => worker'.requests = <<>>]_vars

\* the first container's buffer has just been cleared after a non-empty get,
\* the second container still has its record and a request is still pending
C31_Witness ==
    /\ worker.collect_pc = "get"
    /\ Len(worker.containers) = 1
    /\ worker.all_requests # <<>>
    /\ CidWeb \notin DOMAIN captured_requests
    /\ CidApi \in DOMAIN captured_requests
    /\ captured_requests[CidApi] # <<>>
    /\ pending_requests # EmptyMap

\* what the get_container_requests calls of the collection task have returned
Returned == worker.collected \o worker.all_requests

CountIn(records, r) == Cardinality({i \in 1..Len(records) : records[i] = r})

BufferedFor(container_id) ==
    IF container_id \in DOMAIN captured_requests
    THEN captured_requests[container_id] ELSE <<>>

\* C32 (as stated): draining loses and duplicates nothing: whenever the
\* collection task is not between a get and its clear, every record stored
\* for a container is either still in that container's buffer or was
\* returned by exactly one get.
C32_DrainLosesNothing ==
    worker.collect_pc # "clear" =>
        \A i \in 1..Len(worker.stored) :
            CountIn(Returned, worker.stored[i])
              + CountIn(BufferedFor(worker.stored[i].container_id), worker.stored[i]) = 1

\* the batch-insert task takes a batch from the shared buffer
DrainStep == worker.insert_pc = "sleep" /\ worker'.insert_pc = "insert"

\* batch_insert_http_requests returns to the batch-insert task
InsertStep == worker.insert_pc = "insert" /\ worker'.insert_pc = "sleep"

RECURSIVE FlattenBatches(_)
FlattenBatches(batches) ==
    IF batches = <<>> THEN <<>>
    ELSE Head(batches).records \o FlattenBatches(Tail(batches))

\* C36: the worker's batch-insert task takes at most batch_size records per
\* tick from the front of the shared buffer in FIFO order and leaves the rest
\* in order; every record added by the collector is handed to the database
\* insert exactly once (the records added are, in order, the batches handed,
\* the batch in hand and the buffer), and a record whose batch insert fails
\* is not put back.
C36_BatchesAreFifoAndHandedOnce ==
    /\ [](worker.collected
            = FlattenBatches(worker.handed) \o worker.to_insert \o worker.buffer)
    /\ [](\A i \in 1..Len(worker.collected) :
             CountIn(FlattenBatches(worker.handed), worker.collected[i]) <= 1)
    /\ [][/\ DrainStep =>
               LET n == Len(worker'.to_insert) IN
               /\ n >= 1
               /\ n <= BatchSize
               /\ n < BatchSize => worker'.buffer = <<>>
               /\ worker'.to_insert = SubSeq(worker.buffer, 1, n)
               /\ worker'.buffer = SubSeq(worker.buffer, n + 1, Len(worker.buffer))
          /\ InsertStep =>
               /\ worker'.buffer = worker.buffer
               /\ worker'.handed[Len(worker'.handed)].records = worker.to_insert
               /\ Len(worker'.handed) = Len(worker.handed) + 1
               /\ ~worker'.handed[Len(worker'.handed)].ok => db_rows' = db_rows]_vars

\* three records were collected; a full batch of the first two was handed to
\* the insert, which failed; the third was handed in a second batch and the
\* buffer is empty
C36_Witness ==
    /\ Len(worker.collected) = 3
    /\ Len(worker.handed) = 2
    /\ worker.handed[1].records = SubSeq(worker.collected, 1, BatchSize)
    /\ ~worker.handed[1].ok
    /\ worker.handed[2].records = SubSeq(worker.collected, BatchSize + 1, 3)
    /\ worker.handed[2].ok
    /\ worker.buffer = <<>>
    /\ Len(db_rows) = 1
====
